---- MODULE Spec2Model ----
(***************************************************************************)
(* Model of app.py (Controle Financeiro): the schema normalizers, the      *)
(* load-time migration, and the lock / atomic-write / quarantine protocol  *)
(* of the spreadsheet store shared by the two sessions.                    *)
(***************************************************************************)
EXTENDS Integers, Sequences, FiniteSets, TLC

(***************************************************************************)
(* Cells.  A spreadsheet / DataFrame cell is one of                        *)
(*   [na |-> TRUE]            pd.NA / NaN / NaT / empty cell                *)
(*   [s |-> <<"a","b">>]      a text, as the sequence of its characters     *)
(*   [n |-> 12]               an integer number                             *)
(*   [b |-> TRUE]             a boolean                                     *)
(*   [y |-> 2025, m |-> 3, d |-> 31]   a calendar date                      *)
(***************************************************************************)
NA == [na |-> TRUE]
Str(chars) == [s |-> chars]
Num(k) == [n |-> k]
Bool(v) == [b |-> v]
Date(yy, mm, dd) == [y |-> yy, m |-> mm, d |-> dd]

IsNA(c) == DOMAIN c = {"na"}
IsStr(c) == DOMAIN c = {"s"}
IsNum(c) == DOMAIN c = {"n"}
IsBool(c) == DOMAIN c = {"b"}
IsDate(c) == DOMAIN c = {"y", "m", "d"}

(***************************************************************************)
(* Python str methods on character sequences.                              *)
(***************************************************************************)
UpperCase == <<"A","B","C","D","E","F","G","H","I","J","K","L","M",
               "N","O","P","Q","R","S","T","U","V","W","X","Y","Z">>
LowerCase == <<"a","b","c","d","e","f","g","h","i","j","k","l","m",
               "n","o","p","q","r","s","t","u","v","w","x","y","z">>
Digits == <<"0","1","2","3","4","5","6","7","8","9">>

LowerCh(ch) ==
    IF \E i \in 1..26 : UpperCase[i] = ch
    THEN LowerCase[CHOOSE i \in 1..26 : UpperCase[i] = ch]
    ELSE ch

\* str.lower()
lower(t) == [i \in 1..Len(t) |-> LowerCh(t[i])]

RECURSIVE lstrip(_)
lstrip(t) == IF t # <<>> /\ Head(t) = " " THEN lstrip(Tail(t)) ELSE t

RECURSIVE rstrip(_)
rstrip(t) ==
    IF t # <<>> /\ t[Len(t)] = " " THEN rstrip(SubSeq(t, 1, Len(t) - 1)) ELSE t

\* str.strip()
strip(t) == rstrip(lstrip(t))

IsDigit(ch) == \E i \in 1..10 : Digits[i] = ch
DigitVal(ch) == (CHOOSE i \in 1..10 : Digits[i] = ch) - 1

RECURSIVE DigitsOf(_)
\* str(k) for an integer k >= 0
DigitsOf(k) ==
    IF k < 10 THEN <<Digits[k + 1]>>
    ELSE Append(DigitsOf(k \div 10), Digits[(k % 10) + 1])

RECURSIVE ValueOf(_)
\* int(t) for a non-empty sequence of digits
ValueOf(t) ==
    IF Len(t) = 1 THEN DigitVal(t[1])
    ELSE 10 * ValueOf(SubSeq(t, 1, Len(t) - 1)) + DigitVal(t[Len(t)])

AllDigits(t) == t # <<>> /\ \A i \in 1..Len(t) : IsDigit(t[i])

Pad2(k) == IF k < 10 THEN <<"0">> \o DigitsOf(k) ELSE DigitsOf(k)

\* str(x) of a cell value, as Series.astype(str) renders it
PyStr(c) ==
    IF IsStr(c) THEN c.s
    ELSE IF IsNum(c) THEN (IF c.n < 0 THEN <<"-">> \o DigitsOf(0 - c.n) ELSE DigitsOf(c.n))
    ELSE IF IsBool(c) THEN (IF c.b THEN <<"T","r","u","e">> ELSE <<"F","a","l","s","e">>)
    ELSE IF IsDate(c) THEN DigitsOf(c.y) \o <<"-">> \o Pad2(c.m) \o <<"-">> \o Pad2(c.d)
    ELSE <<"n","a","n">>

\* Series.astype("string"): missing stays missing, everything else is its text
AsStringDtype(c) == IF IsNA(c) THEN NA ELSE Str(PyStr(c))

\* Series.astype("string").fillna(dflt).astype(str)
AsText(c, dflt) == IF IsNA(c) THEN Str(dflt) ELSE Str(PyStr(c))

\* pd.to_numeric(errors="coerce") of one cell; NA stands for NaN
ToNumeric(c) ==
    IF IsNum(c) THEN c
    ELSE IF IsBool(c) THEN Num(IF c.b THEN 1 ELSE 0)
    ELSE IF IsStr(c) /\ AllDigits(strip(c.s)) THEN Num(ValueOf(strip(c.s)))
    ELSE NA

\* Series.fillna(v)
FillNa(c, v) == IF IsNA(c) THEN v ELSE c

IsIsoDate(t) ==
    /\ Len(t) = 10
    /\ t[5] = "-" /\ t[8] = "-"
    /\ \A i \in {1, 2, 3, 4, 6, 7, 9, 10} : IsDigit(t[i])
    /\ ValueOf(SubSeq(t, 6, 7)) \in 1..12
    /\ ValueOf(SubSeq(t, 9, 10)) \in 1..28

\* pd.to_datetime(errors="coerce").dt.date of one cell; NA stands for NaT
ToDate(c) ==
    IF IsDate(c) THEN c
    ELSE IF IsNum(c) THEN Date(1970, 1, 1)
    ELSE IF IsStr(c) /\ IsIsoDate(strip(c.s))
         THEN Date(ValueOf(SubSeq(strip(c.s), 1, 4)),
                   ValueOf(SubSeq(strip(c.s), 6, 7)),
                   ValueOf(SubSeq(strip(c.s), 9, 10)))
    ELSE NA

(***************************************************************************)
(* Tables.  A DataFrame is [cols, rows, boolcols]: the column labels in    *)
(* order, the rows as functions from label to cell, and the set of labels  *)
(* whose column dtype is bool.  A label is a name with `pad` blanks around *)
(* it (a header typed with stray spaces).                                  *)
(***************************************************************************)
Col(name) == [name |-> name, pad |-> 0]

GASTOS_COLS == <<Col("ID"), Col("Data"), Col("Categoria"), Col("Subcategoria"),
                 Col("Valor"), Col("Pagamento"), Col("Quem"), Col("Obs"),
                 Col("Origem"), Col("RefFixa")>>
METAS_COLS == <<Col("Categoria"), Col("Meta")>>
FIXAS_COLS == <<Col("ID_Fixa"), Col("Descricao"), Col("Categoria"), Col("Valor"),
                Col("Dia_Venc"), Col("Pagamento"), Col("Quem"), Col("Ativo"),
                Col("Obs")>>
RESERVAS_COLS == <<Col("ID_Reserva"), Col("Reserva"), Col("Meta"), Col("Ativo"),
                   Col("Obs")>>
MOVRES_COLS == <<Col("ID_Mov"), Col("Data"), Col("ID_Reserva"), Col("Reserva"),
                 Col("Tipo"), Col("Valor"), Col("Quem"), Col("Obs")>>

Range(f) == {f[i] : i \in DOMAIN f}

\* pd.DataFrame(columns=COLS): no rows, every column of dtype object
EmptyFrame(COLS) == [cols |-> COLS, rows |-> <<>>, boolcols |-> {}]

\* str(c).strip() of a label
StripLabel(c) == [name |-> c.name, pad |-> 0]

_normalizar_colunas(df) ==
    [cols |-> [i \in 1..Len(df.cols) |-> StripLabel(df.cols[i])],
     rows |-> [i \in 1..Len(df.rows) |->
                 [c \in {StripLabel(k) : k \in DOMAIN df.rows[i]} |->
                    df.rows[i][CHOOSE k \in DOMAIN df.rows[i] : StripLabel(k) = c]]],
     boolcols |-> {StripLabel(k) : k \in df.boolcols}]

HasCol(df, c) == c \in Range(df.cols)

\* df[c] = pd.NA
AddCol(df, c) ==
    [cols |-> IF HasCol(df, c) THEN df.cols ELSE Append(df.cols, c),
     rows |-> [i \in 1..Len(df.rows) |->
                 [k \in DOMAIN df.rows[i] \cup {c} |-> IF k = c THEN NA ELSE df.rows[i][k]]],
     boolcols |-> df.boolcols \ {c}]

RECURSIVE AddMissingCols(_, _)
\* for c in COLS: if c not in df.columns: df[c] = pd.NA
AddMissingCols(df, COLS) ==
    IF COLS = <<>> THEN df
    ELSE AddMissingCols(IF HasCol(df, Head(COLS)) THEN df ELSE AddCol(df, Head(COLS)),
                        Tail(COLS))

AnyMissingCol(df, COLS) == \E i \in 1..Len(COLS) : ~HasCol(df, COLS[i])

\* df[c] = F(df[c]), cell by cell; the column dtype becomes object
MapCol(df, c, F(_)) ==
    [cols |-> df.cols,
     rows |-> [i \in 1..Len(df.rows) |-> [df.rows[i] EXCEPT ![c] = F(@)]],
     boolcols |-> df.boolcols \ {c}]

\* df[COLS].copy()
SelectCols(df, COLS) ==
    [cols |-> COLS,
     rows |-> [i \in 1..Len(df.rows) |-> [c \in Range(COLS) |-> df.rows[i][c]]],
     boolcols |-> df.boolcols \cap Range(COLS)]

\* df[df[c].astype(str).str.strip() != ""].copy()
DropBlank(df, c) ==
    LET Keep(row) == strip(PyStr(row[c])) # <<>>
    IN  [df EXCEPT !.rows = SelectSeq(df.rows, Keep)]

\* Series.isna() | (Series.str.strip() == "") of one cell of a "string" column
IdMissing(c) == IsNA(c) \/ strip(c.s) = <<>>

MissingCount(df, c) == Cardinality({i \in 1..Len(df.rows) : IdMissing(df.rows[i][c])})

\* mutant: one uuid4() value written to every row that lacks an identifier
AssignRowsSame(rows, c, ids) ==
    [i \in 1..Len(rows) |->
        IF IdMissing(rows[i][c]) THEN [rows[i] EXCEPT ![c] = Str(Head(ids))] ELSE rows[i]]

RECURSIVE AssignRows(_, _, _)
AssignRows(rows, c, ids) ==
    IF rows = <<>> THEN <<>>
    ELSE IF IdMissing(Head(rows)[c])
         THEN <<[Head(rows) EXCEPT ![c] = Str(Head(ids))]>> \o AssignRows(Tail(rows), c, Tail(ids))
         ELSE <<Head(rows)>> \o AssignRows(Tail(rows), c, ids)

\* df.loc[faltando, c] = [uuid.uuid4().hex for _ in range(int(faltando.sum()))]
\* `ids` are the values the uuid4() calls return, in call order
AssignIds(df, c, ids) == [df EXCEPT !.rows = AssignRows(df.rows, c, ids)]

TrueWords == { <<"t","r","u","e">>, <<"1">>, <<"s","i","m">>, <<"y","e","s">>, <<"y">> }

\* Series.astype(str).str.strip().str.lower().isin(["true","1","sim","yes","y"])
ToAtivo(c) == Bool(strip(lower(PyStr(c))) \in TrueWords)

\* mutant: the coerced Ativo column is left with dtype object
CoerceAtivoObject(df) ==
    IF Col("Ativo") \in df.boolcols THEN df ELSE MapCol(df, Col("Ativo"), ToAtivo)

\* if df["Ativo"].dtype != bool: df["Ativo"] = ...isin([...])
CoerceAtivo(df) ==
    IF Col("Ativo") \in df.boolcols THEN df
    ELSE [MapCol(df, Col("Ativo"), ToAtivo) EXCEPT !.boolcols = df.boolcols \cup {Col("Ativo")}]

StringDtype(c) == AsStringDtype(c)
TextOrEmpty(c) == AsText(c, <<>>)
TextStripped(c) == Str(strip(AsText(c, <<>>).s))
NumericOrZero(c) == FillNa(ToNumeric(c), Num(0))
NumericOrOne(c) == FillNa(ToNumeric(c), Num(1))
TipoText(c) == Str(strip(AsText(c, <<"A","p","o","r","t","e">>).s))

\* for c in CS: df[c] = F(df[c])
MapCols(df, CS, F(_)) ==
    [cols |-> df.cols,
     rows |-> [i \in 1..Len(df.rows) |->
                 [c \in DOMAIN df.rows[i] |->
                    IF c \in CS THEN F(df.rows[i][c]) ELSE df.rows[i][c]]],
     boolcols |-> df.boolcols \ CS]

(***************************************************************************)
(* The five schema normalizers.  `ids` is the sequence of values that the  *)
(* uuid4() calls of the normalizer return.  Result: [df, changed].         *)
(***************************************************************************)
_ensure_gastos_schema(df0, ids) ==
    LET d1 == _normalizar_colunas(df0)
        d2 == AddMissingCols(d1, GASTOS_COLS)
        d3 == MapCol(d2, Col("ID"), StringDtype)
        faltando == MissingCount(d3, Col("ID")) > 0
        d4 == IF faltando THEN AssignIds(d3, Col("ID"), ids) ELSE d3
        d5 == MapCol(d4, Col("Data"), ToDate)
        d6 == MapCol(d5, Col("Valor"), NumericOrZero)
        d7 == MapCols(d6, {Col("Categoria"), Col("Subcategoria"), Col("Pagamento"),
                            Col("Quem"), Col("Obs"), Col("Origem"), Col("RefFixa")},
                      TextOrEmpty)
    IN  [df |-> SelectCols(d7, GASTOS_COLS),
         changed |-> AnyMissingCol(d1, GASTOS_COLS) \/ faltando]

GeralRow(df, meta) ==
    [c \in Range(df.cols) |->
        IF c = Col("Categoria") THEN Str(<<"G","e","r","a","l">>)
        ELSE IF c = Col("Meta") THEN meta ELSE NA]

HasGeral(df) ==
    \E i \in 1..Len(df.rows) :
        lower(PyStr(df.rows[i][Col("Categoria")])) = <<"g","e","r","a","l">>

_ensure_metas_schema(metas0) ==
    LET d1 == _normalizar_colunas(metas0)
        d2 == AddMissingCols(d1, METAS_COLS)
        d3 == MapCol(d2, Col("Categoria"), TextStripped)
        d4 == MapCol(d3, Col("Meta"), NumericOrZero)
        semGeral == ~HasGeral(d4)
        d5 == IF semGeral
              THEN [d4 EXCEPT !.rows = Append(d4.rows, GeralRow(d4, Num(0)))]
              ELSE d4
        d6 == DropBlank(d5, Col("Categoria"))
    IN  [df |-> SelectCols(d6, METAS_COLS),
         changed |-> AnyMissingCol(d1, METAS_COLS) \/ semGeral]

_ensure_fixas_schema(fixas0, ids) ==
    LET d1 == _normalizar_colunas(fixas0)
        d2 == AddMissingCols(d1, FIXAS_COLS)
        d3 == MapCol(d2, Col("ID_Fixa"), TextOrEmpty)
        faltando == MissingCount(d3, Col("ID_Fixa")) > 0
        d4 == IF faltando THEN AssignIds(d3, Col("ID_Fixa"), ids) ELSE d3
        d5 == MapCols(d4, {Col("Descricao"), Col("Categoria")}, TextStripped)
        d6 == MapCol(d5, Col("Valor"), NumericOrZero)
        d7 == MapCol(d6, Col("Dia_Venc"), NumericOrOne)
        d8 == MapCols(d7, {Col("Pagamento"), Col("Quem")}, TextOrEmpty)
        naoBool == Col("Ativo") \notin d8.boolcols
        d9 == CoerceAtivo(d8)
        d10 == MapCol(d9, Col("Obs"), TextOrEmpty)
        d11 == DropBlank(d10, Col("Descricao"))
    IN  [df |-> SelectCols(d11, FIXAS_COLS),
         changed |-> AnyMissingCol(d1, FIXAS_COLS) \/ faltando \/ naoBool]

_ensure_reservas_schema(res0, ids) ==
    LET d1 == _normalizar_colunas(res0)
        d2 == AddMissingCols(d1, RESERVAS_COLS)
        d3 == MapCol(d2, Col("ID_Reserva"), TextOrEmpty)
        faltando == MissingCount(d3, Col("ID_Reserva")) > 0
        d4 == IF faltando THEN AssignIds(d3, Col("ID_Reserva"), ids) ELSE d3
        d5 == MapCol(d4, Col("Reserva"), TextStripped)
        d6 == MapCol(d5, Col("Meta"), NumericOrZero)
        naoBool == Col("Ativo") \notin d6.boolcols
        d7 == CoerceAtivo(d6)
        d8 == MapCol(d7, Col("Obs"), TextOrEmpty)
        d9 == DropBlank(d8, Col("Reserva"))
    IN  [df |-> SelectCols(d9, RESERVAS_COLS),
         changed |-> AnyMissingCol(d1, RESERVAS_COLS) \/ faltando \/ naoBool]

_ensure_movres_schema(mov0, ids) ==
    LET d1 == _normalizar_colunas(mov0)
        d2 == AddMissingCols(d1, MOVRES_COLS)
        d3 == MapCol(d2, Col("ID_Mov"), TextOrEmpty)
        faltando == MissingCount(d3, Col("ID_Mov")) > 0
        d4 == IF faltando THEN AssignIds(d3, Col("ID_Mov"), ids) ELSE d3
        d5 == MapCol(d4, Col("Data"), ToDate)
        d6 == MapCol(d5, Col("ID_Reserva"), TextOrEmpty)
        d7 == MapCol(d6, Col("Reserva"), TextStripped)
        d8 == MapCol(d7, Col("Tipo"), TipoText)
        d9 == MapCol(d8, Col("Valor"), NumericOrZero)
        d10 == MapCols(d9, {Col("Quem"), Col("Obs")}, TextOrEmpty)
    IN  [df |-> SelectCols(d10, MOVRES_COLS),
         changed |-> AnyMissingCol(d1, MOVRES_COLS) \/ faltando]

(***************************************************************************)
(* set_meta_geral and the uuid4() values.                                  *)
(***************************************************************************)
RowsWhere(df, Test(_)) == {i \in 1..Len(df.rows) : Test(df.rows[i])}

IsGeralRow(row) == strip(lower(PyStr(row[Col("Categoria")]))) = <<"g","e","r","a","l">>

set_meta_geral(df_metas, novo_valor) ==
    LET m == IF RowsWhere(df_metas, IsGeralRow) # {}
             THEN [df_metas EXCEPT !.rows =
                     [i \in 1..Len(df_metas.rows) |->
                        IF IsGeralRow(df_metas.rows[i])
                        THEN [df_metas.rows[i] EXCEPT ![Col("Meta")] = Num(novo_valor)]
                        ELSE df_metas.rows[i]]]
             ELSE [df_metas EXCEPT !.rows =
                     Append(df_metas.rows, GeralRow(df_metas, Num(novo_valor)))]
    IN  _ensure_metas_schema(m).df

\* Bound of the normalizer inputs: the most rows an input table has
MaxRows == 2

\* the values uuid.uuid4().hex can return
UuidOf(k) == <<"f">> \o DigitsOf(k)
Uuids == {UuidOf(k) : k \in 1..(MaxRows + 2)}

\* the texts found in column c of df (c may be absent)
TextsIn(df, c) ==
    {PyStr(df.rows[i][c]) : i \in {j \in 1..Len(df.rows) : c \in DOMAIN df.rows[j]}}

RECURSIVE Ascending(_, _)
\* the ascending sequences of k distinct elements of the set S of integers
Ascending(S, k) ==
    IF k = 0 THEN {<<>>}
    ELSE UNION {{<<x>> \o t : t \in Ascending({y \in S : y > x}, k - 1)} : x \in S}

\* what k calls of uuid4() can return: k distinct values found nowhere in `used`
\* (taken in one order: no normalizer looks at the order of two fresh values)
Uuid4Calls(k, used) ==
    {[i \in 1..k |-> UuidOf(idx[i])] :
        idx \in Ascending({j \in 1..(MaxRows + 2) : UuidOf(j) \notin used}, k)}

(***************************************************************************)
(* Input tables of the normalizers: up to MaxRows rows drawn from sample   *)
(* rows (identifiers missing, blank, present, numeric; clean and dirty     *)
(* cells), with the exact columns, with one column missing, or with a      *)
(* padded header.                                                          *)
(***************************************************************************)
T_geral == <<"G","e","r","a","l">>
T_GERAL == <<"G","E","R","A","L">>
T_geral_pad == <<" ","g","e","r","a","l"," ">>
T_lazer == <<"L","a","z","e","r">>
T_sim == <<"S","i","m">>
T_a1 == <<"a","1">>
T_f1 == <<"f","1">>

IdSamples == {NA, Str(<<" ">>), Str(T_a1), Str(T_f1)}

RowOf(COLS, Cell(_)) == [c \in Range(COLS) |-> Cell(c.name)]

GastosRow(id, dirty) ==
    LET Cell(name) ==
          CASE name = "ID" -> id
            [] name = "Data" -> IF dirty THEN Str(<<"x">>) ELSE Date(2025, 3, 31)
            [] name = "Valor" -> IF dirty THEN Str(<<" ","1","2">>) ELSE Num(50)
            [] name = "Categoria" -> IF dirty THEN NA ELSE Str(T_lazer)
            [] name = "Origem" -> IF dirty THEN NA ELSE Str(<<"F","I","X","A">>)
            [] name = "RefFixa" -> IF dirty THEN Num(7) ELSE Str(T_a1)
            [] OTHER -> IF dirty THEN NA ELSE Str(<<>>)
    IN  RowOf(GASTOS_COLS, Cell)

MetasRow(cat, meta) ==
    LET Cell(name) == IF name = "Categoria" THEN cat ELSE meta
    IN  RowOf(METAS_COLS, Cell)

FixasRow(id, shape) ==
    LET Cell(name) ==
          CASE name = "ID_Fixa" -> id
            [] name = "Descricao" -> IF shape = "blank" THEN Str(<<" ">>) ELSE Str(<<" ","l","u","z">>)
            [] name = "Valor" -> IF shape \in {"clean", "late"} THEN Num(500) ELSE Str(<<"x">>)
            [] name = "Dia_Venc" -> IF shape = "clean" THEN Num(31)
                                    ELSE IF shape = "late" THEN Num(45) ELSE NA
            [] name = "Ativo" -> IF shape \in {"clean", "late"} THEN Bool(TRUE)
                                 ELSE IF shape = "dirty" THEN Str(T_sim) ELSE Num(1)
            [] OTHER -> IF shape \in {"clean", "late"} THEN Str(<<>>) ELSE NA
    IN  RowOf(FIXAS_COLS, Cell)

ReservasRow(id, shape) ==
    LET Cell(name) ==
          CASE name = "ID_Reserva" -> id
            [] name = "Reserva" -> IF shape = "blank" THEN NA ELSE Str(<<"c","a","s","a"," ">>)
            [] name = "Meta" -> IF shape = "clean" THEN Num(6000) ELSE Str(<<"x">>)
            [] name = "Ativo" -> IF shape = "clean" THEN Bool(FALSE)
                                 ELSE IF shape = "dirty" THEN Str(<<"Y","E","S"," ">>) ELSE NA
            [] OTHER -> IF shape = "clean" THEN Str(<<>>) ELSE NA
    IN  RowOf(RESERVAS_COLS, Cell)

MovresRow(id, dirty) ==
    LET Cell(name) ==
          CASE name = "ID_Mov" -> id
            [] name = "Data" -> IF dirty THEN NA ELSE Str(<<"2","0","2","5","-","0","3","-","0","1">>)
            [] name = "ID_Reserva" -> IF dirty THEN NA ELSE Str(T_a1)
            [] name = "Tipo" -> IF dirty THEN NA ELSE Str(<<"R","e","t","i","r","a","d","a"," ">>)
            [] name = "Valor" -> IF dirty THEN NA ELSE Num(200)
            [] OTHER -> IF dirty THEN NA ELSE Str(<<>>)
    IN  RowOf(MOVRES_COLS, Cell)

Kinds == {"gastos", "metas", "fixas", "reservas", "movres"}

ColsOf(kind) ==
    CASE kind = "gastos" -> GASTOS_COLS
      [] kind = "metas" -> METAS_COLS
      [] kind = "fixas" -> FIXAS_COLS
      [] kind = "reservas" -> RESERVAS_COLS
      [] kind = "movres" -> MOVRES_COLS

\* the identifier column of a table (metas has none)
IdColOf(kind) ==
    CASE kind = "gastos" -> Col("ID")
      [] kind = "fixas" -> Col("ID_Fixa")
      [] kind = "reservas" -> Col("ID_Reserva")
      [] kind = "movres" -> Col("ID_Mov")
      [] kind = "metas" -> Col("Categoria")

\* the mandatory key whose blank rows are dropped (none for gastos and movres)
KeyColOf(kind) ==
    CASE kind = "fixas" -> Col("Descricao")
      [] kind = "reservas" -> Col("Reserva")
      [] kind = "metas" -> Col("Categoria")
      [] OTHER -> Col("")

SampleRows(kind) ==
    CASE kind = "gastos" -> {GastosRow(id, dirty) : id \in IdSamples, dirty \in BOOLEAN}
      [] kind = "metas" ->
           {MetasRow(cat, meta) :
              cat \in {Str(T_geral), Str(T_GERAL), Str(T_geral_pad), Str(T_lazer), NA},
              meta \in {Num(100), Str(<<"x">>)}}
      [] kind = "fixas" ->
           {FixasRow(id, shape) : id \in IdSamples, shape \in {"clean", "dirty"}}
              \cup {FixasRow(id, "blank") : id \in {NA, Str(T_a1)}}
              \cup {FixasRow(Str(T_f1), "late")}
      [] kind = "reservas" ->
           {ReservasRow(id, shape) : id \in IdSamples, shape \in {"clean", "dirty"}}
              \cup {ReservasRow(id, "blank") : id \in {NA, Str(T_a1)}}
      [] kind = "movres" -> {MovresRow(id, dirty) : id \in IdSamples, dirty \in BOOLEAN}

RECURSIVE SeqsUpTo(_, _)
\* the sequences over S of length at most k
SeqsUpTo(S, k) ==
    IF k = 0 THEN {<<>>}
    ELSE {<<>>} \cup UNION {{<<x>> \o t : t \in SeqsUpTo(S, k - 1)} : x \in S}

\* the dtype pandas can give the Ativo column: bool only if every cell is a boolean
BoolColsChoices(kind, rows) ==
    IF kind \in {"fixas", "reservas"} /\ \A i \in 1..Len(rows) : IsBool(rows[i][Col("Ativo")])
    THEN {{}, {Col("Ativo")}}
    ELSE {{}}

\* df.drop(columns=[c])
DropCol(df, c) ==
    [cols |-> SelectSeq(df.cols, LAMBDA k : k # c),
     rows |-> [i \in 1..Len(df.rows) |-> [k \in DOMAIN df.rows[i] \ {c} |-> df.rows[i][k]]],
     boolcols |-> df.boolcols \ {c}]

\* the header of column c typed with a blank around it
PadCol(df, c) ==
    LET P(k) == IF k = c THEN [name |-> c.name, pad |-> 1] ELSE k
    IN  [cols |-> [i \in 1..Len(df.cols) |-> P(df.cols[i])],
         rows |-> [i \in 1..Len(df.rows) |->
                     [k \in {P(j) : j \in DOMAIN df.rows[i]} |->
                        df.rows[i][IF k = P(c) THEN c ELSE k]]],
         boolcols |-> {P(k) : k \in df.boolcols}]

Shapes == {"exact", "noid", "nokey", "nolast", "padded"}

Reshape(kind, df, shape) ==
    CASE shape = "exact" -> df
      [] shape = "noid" -> DropCol(df, IdColOf(kind))
      [] shape = "nokey" -> DropCol(df, IF kind \in {"fixas", "reservas"} THEN Col("Ativo")
                                        ELSE ColsOf(kind)[Len(ColsOf(kind))])
      [] shape = "nolast" -> DropCol(df, ColsOf(kind)[Len(ColsOf(kind))])
      [] shape = "padded" -> PadCol(df, IdColOf(kind))

InputTables(kind) ==
    UNION {{Reshape(kind, [cols |-> ColsOf(kind), rows |-> rows, boolcols |-> bc], shape) :
              bc \in BoolColsChoices(kind, rows), shape \in Shapes} :
           rows \in SeqsUpTo(SampleRows(kind), MaxRows)}

NeedsId(c) == IsNA(c) \/ strip(PyStr(c)) = <<>>

\* how many uuid4() calls normalizing df makes
IdsNeeded(kind, df) ==
    IF kind = "metas" THEN 0
    ELSE MissingCount(MapCol(AddMissingCols(_normalizar_colunas(df), ColsOf(kind)),
                             IdColOf(kind), StringDtype),
                      IdColOf(kind))

UsedIds(kind, df) == TextsIn(_normalizar_colunas(df), IdColOf(kind))

(***************************************************************************)
(* The workbook.  A parseable document is a function from sheet names to   *)
(* sheets [cols, rows]; a sheet keeps no dtype, read_excel infers it.      *)
(***************************************************************************)
\* DataFrame.to_excel(index=False): an empty text is written as an empty cell
ExcelCell(c) == IF c = Str(<<>>) THEN NA ELSE c

to_excel(df) ==
    [cols |-> df.cols,
     rows |-> [i \in 1..Len(df.rows) |-> [c \in DOMAIN df.rows[i] |-> ExcelCell(df.rows[i][c])]]]

\* pd.read_excel: a column is bool only if it has cells and all are booleans
read_excel(sheet) ==
    [cols |-> sheet.cols,
     rows |-> sheet.rows,
     boolcols |-> {c \in Range(sheet.cols) :
                     /\ sheet.rows # <<>>
                     /\ \A i \in 1..Len(sheet.rows) : IsBool(sheet.rows[i][c])}]

\* the five tables of a session: [g, m, f, r, mov]
Frames(g, m, f, r, mov) == [g |-> g, m |-> m, f |-> f, r |-> r, mov |-> mov]

excel_bytes(t) ==
    [gastos |-> to_excel(t.g), metas |-> to_excel(t.m), fixas |-> to_excel(t.f),
     reservas |-> to_excel(t.r), mov_reservas |-> to_excel(t.mov)]

SheetOr(sheets, name, COLS) ==
    IF name \in DOMAIN sheets THEN read_excel(sheets[name]) ELSE EmptyFrame(COLS)

\* the tables carregar_excel_cached returns for a parseable document
carregar_excel_cached(sheets) ==
    Frames(SheetOr(sheets, "gastos", GASTOS_COLS),
           SheetOr(sheets, "metas", METAS_COLS),
           SheetOr(sheets, "fixas", FIXAS_COLS),
           SheetOr(sheets, "reservas", RESERVAS_COLS),
           SheetOr(sheets, "mov_reservas", MOVRES_COLS))

RECURSIVE FirstUuids(_, _, _)
\* k calls of uuid4() in a session: the first k values UuidOf(j), j >= from,
\* found nowhere in `used`
FirstUuids(k, used, from) ==
    IF k = 0 THEN <<>>
    ELSE IF UuidOf(from) \in used THEN FirstUuids(k, used, from + 1)
    ELSE <<UuidOf(from)>> \o FirstUuids(k - 1, used, from + 1)

SessionUuids(kind, df) == FirstUuids(IdsNeeded(kind, df), UsedIds(kind, df), 1)

\* the five _ensure_*_schema calls made in a row by salvar_excel,
\* carregar_excel and restore_from_upload: [t, changed]
EnsureAll(t) ==
    LET g == _ensure_gastos_schema(t.g, SessionUuids("gastos", t.g))
        m == _ensure_metas_schema(t.m)
        f == _ensure_fixas_schema(t.f, SessionUuids("fixas", t.f))
        r == _ensure_reservas_schema(t.r, SessionUuids("reservas", t.r))
        mov == _ensure_movres_schema(t.mov, SessionUuids("movres", t.mov))
    IN  [t |-> Frames(g.df, m.df, f.df, r.df, mov.df),
         changed |-> g.changed \/ m.changed \/ f.changed \/ r.changed \/ mov.changed]

\* the bytes salvar_excel writes for the tables t
SaveBytes(t) == excel_bytes(EnsureAll(t).t)

\* names and notes of reservas_base, abbreviated to their initials
ReservasBase ==
    << <<"R","E">>, <<"R","S">>, <<"R","C">>, <<"R","V">>,
       <<"R","I">>, <<"R","L">>, <<"R","D">>, <<"R","P">> >>

\* categories of the default metas table, abbreviated, "Geral" last
MetasBase ==
    << <<"A","l","i">>, <<"T","r","a">>, <<"M","o","r">>, <<"L","a","z">>, <<"O","u","t">>,
       T_geral >>

DefaultReservaRow(name, id) ==
    LET Cell(c) ==
          CASE c = "ID_Reserva" -> Str(id)
            [] c = "Reserva" -> Str(name)
            [] c = "Meta" -> Num(0)
            [] c = "Ativo" -> Bool(TRUE)
            [] OTHER -> Str(<<"o">> \o name)
    IN  [c \in Range(RESERVAS_COLS) |-> Cell(c.name)]

_default_frames ==
    LET ids == FirstUuids(Len(ReservasBase), {}, 1)
        g == EmptyFrame(GASTOS_COLS)
        m == [cols |-> METAS_COLS,
              rows |-> [i \in 1..Len(MetasBase) |-> MetasRow(Str(MetasBase[i]), Num(0))],
              boolcols |-> {}]
        f == EmptyFrame(FIXAS_COLS)
        r == [cols |-> RESERVAS_COLS,
              rows |-> [i \in 1..Len(ReservasBase) |-> DefaultReservaRow(ReservasBase[i], ids[i])],
              boolcols |-> {Col("Ativo")}]
        mov == EmptyFrame(MOVRES_COLS)
    IN  EnsureAll(Frames(g, m, f, r, mov)).t

(***************************************************************************)
(* State.                                                                  *)
(*   nkind, ntab, nres : the normalizer under test, its input table and    *)
(*                       the results of the calls made on it so far        *)
(*   files  : content of dados.xlsx ("doc"), dados.xlsx.tmp ("tmp") and    *)
(*            dados.xlsx.bak ("bak")                                       *)
(*   quar   : contents of the dados.xlsx.CORROMPIDO.<ts> files             *)
(*   lock   : the marker dados.xlsx.lock: absent, or its creator and age   *)
(*   pc     : position of each session in its script run                   *)
(*   ctx    : the caller of the session's salvar_excel call of this run    *)
(*   mem    : the session's tables df_gastos .. df_mov_res                 *)
(*   fd     : the file the session's open handle on dados.xlsx.tmp is now  *)
(*   late   : time.time() - start > timeout_seconds in acquire_lock        *)
(*   msg    : st.session_state["RECOVERY_MSG"] is set                      *)
(*   result : how the session's last salvar_excel call ended               *)
(*   obs    : what the properties record about the session's salvar_excel  *)
(*            call: touched, the files and marker it changed; staleAtStart, *)
(*            it began alone on a stale marker; barged, another session     *)
(*            created the marker during it; relDuring, another session      *)
(*            released during it and before its timeout; bad, the document  *)
(*            its load could not parse; docs, the contents the document had *)
(*            since the last save completed before its load began; before,  *)
(*            the tables the caller of its salvar_excel held when the       *)
(*            handler began; old, the content its salvar_excel replaced     *)
(*   cache  : st.cache_data of the session's process: the results of        *)
(*            carregar_excel_cached, by the mtime they were read under      *)
(*   mt     : st_mtime of dados.xlsx and dados.xlsx.tmp                     *)
(*   now    : the clock, in steps of the file system's timestamps           *)
(*   runs   : the script runs the session has started                       *)
(*   cfn, cin, cout : the helper under test (splitter, schedule, roll-up),  *)
(*            its arguments and the results of the calls made so far        *)
(***************************************************************************)
VARIABLES nkind, ntab, nres, files, quar, lock, pc, ctx, mem, fd, late, msg,
          result, obs, runs, cfn, cin, cout, cache, mt, now

normVars == <<nkind, ntab, nres>>
storeVars == <<files, quar, lock, pc, ctx, mem, fd, late, msg, result, obs, runs,
               cache, mt, now>>
calcVars == <<cfn, cin, cout>>
cacheVars == <<cache, mt, now>>
vars == <<nkind, ntab, nres, files, quar, lock, pc, ctx, mem, fd, late, msg, result, obs,
          runs, cfn, cin, cout, cache, mt, now>>

(***************************************************************************)
(* The store: files, lock marker and sessions.                             *)
(***************************************************************************)
PESSOAS == {"Roney", "Adriele"}

stale_seconds == 180
timeout_seconds == 6

\* Bounds of the clock: seconds per Tick, and the oldest age (in ticks) a
\* marker is followed to
TickSeconds == 100
MaxAge == 2

\* Bound: script runs followed per session
MaxRuns == 2

Missing == [kind |-> "missing"]
\* a file opened with "wb" whose bytes are not written yet
Truncated == [kind |-> "trunc"]
\* a file that is no workbook (a damaged container)
Corrupt == [kind |-> "corrupt"]
Workbook(sheets) == [kind |-> "xlsx", sheets |-> sheets]

Exists(c) == c.kind # "missing"
\* pd.ExcelFile(path) succeeds
Parseable(c) == c.kind = "xlsx"

NoLock == [held |-> FALSE]
Marker(p, age) == [by |-> p, age |-> age]
LockExists == lock # NoLock

\* age > stale_seconds
IsStale(age) == age * TickSeconds > stale_seconds

\* mutant: the threshold taken in minutes
IsStaleMinutes(age) == age * TickSeconds > stale_seconds * 60

\* acquire_lock's test of the marker it found
JudgedStale(age) == IsStale(age)

NoFrames == [none |-> TRUE]

AcqPcs == {"acq_check", "acq_remove", "acq_open"}
HoldPcs == {"w_backup", "w_open", "w_write", "w_replace", "release", "release_exc"}
SavePcs == AcqPcs \cup HoldPcs

NoObs ==
    [touched |-> {}, staleAtStart |-> FALSE, barged |-> FALSE, relDuring |-> FALSE,
     bad |-> Missing, docs |-> {}, before |-> NoFrames, old |-> Missing,
     saved |-> FALSE]

\* the sessions whose carregar_excel has begun and not yet read the document
Loading(q) == pc[q] \in {"ld_init", "ld_read"} \/ ctx[q] = "init"

\* the document has the content d from now on: the loads under way may
\* return it
SeenBy(o, d) == [q \in PESSOAS |-> IF Loading(q) THEN [o[q] EXCEPT !.docs = @ \cup {d}] ELSE o[q]]

\* the uuid4() value of a new entry typed by session p
SessionTag(p) == IF p = "Roney" THEN <<"r">> ELSE <<"a">>

NovoGasto(p, id) ==
    LET Cell(name) ==
          CASE name = "ID" -> Str(id)
            [] name = "Data" -> Date(2025, 3, 10)
            [] name = "Categoria" -> Str(T_lazer)
            [] name = "Valor" -> Num(50)
            [] name = "Pagamento" -> Str(<<"P","I","X">>)
            [] name = "Quem" -> Str(SessionTag(p))
            [] OTHER -> Str(<<>>)
    IN  [c \in Range(GASTOS_COLS) |-> Cell(c.name)]

HasEntryOf(t, p) ==
    \E i \in 1..Len(t.g.rows) : t.g.rows[i][Col("Quem")] = Str(SessionTag(p))

\* "Salvar gasto": df_gastos = pd.concat([df_gastos, pd.DataFrame([novo])])
AddGasto(t, p) ==
    [t EXCEPT !.g.rows = Append(t.g.rows, NovoGasto(p, SessionTag(p) \o <<"1">>)),
              !.g.boolcols = {}]

StoreIdle ==
    /\ files = [doc |-> Missing, tmp |-> Missing, bak |-> Missing]
    /\ quar = {}
    /\ lock = NoLock
    /\ pc = [p \in PESSOAS |-> "idle"]
    /\ ctx = [p \in PESSOAS |-> "none"]
    /\ mem = [p \in PESSOAS |-> NoFrames]
    /\ fd = [p \in PESSOAS |-> "none"]
    /\ late = [p \in PESSOAS |-> FALSE]
    /\ msg = [p \in PESSOAS |-> FALSE]
    /\ result = [p \in PESSOAS |-> "none"]
    /\ obs = [p \in PESSOAS |-> NoObs]
    /\ runs = [p \in PESSOAS |-> 0]
    /\ cache = [p \in PESSOAS |-> {}]
    /\ mt = [doc |-> 0, tmp |-> 0]
    /\ now = 0

NormIdle ==
    /\ nkind = "gastos"
    /\ ntab = EmptyFrame(GASTOS_COLS)
    /\ nres = <<>>
    /\ cfn = "none"
    /\ cin = <<>>
    /\ cout = <<>>

DefaultDoc == Workbook(SaveBytes(_default_frames))

(***************************************************************************)
(* Script run of a session: carregar_excel, then at most one form submit.  *)
(* salvar_excel is followed system call by system call; the normalizing   *)
(* and serializing it does under the lock touch no shared state and are    *)
(* computed when the call starts.                                          *)
(***************************************************************************)
\* salvar_excel(t) called from `caller`
CallSalvar(p, caller, t) ==
    /\ ctx' = [ctx EXCEPT ![p] = caller]
    /\ mem' = [mem EXCEPT ![p] = t]
    /\ late' = [late EXCEPT ![p] = FALSE]
    /\ result' = [result EXCEPT ![p] = "running"]
    /\ pc' = [pc EXCEPT ![p] = "acq_check"]
    /\ obs' = [obs EXCEPT ![p] =
                 [@ EXCEPT !.staleAtStart = /\ LockExists /\ IsStale(lock.age)
                                            /\ \A q \in PESSOAS : pc[q] \notin SavePcs,
                           !.before = mem[p]]]

\* the script starts: df_gastos, ... = carregar_excel()
StartRun(p) ==
    /\ UNCHANGED <<normVars, calcVars>>
    /\ pc[p] = "idle"
    /\ runs[p] < MaxRuns
    /\ runs' = [runs EXCEPT ![p] = @ + 1]
    /\ pc' = [pc EXCEPT ![p] = "ld_init"]
    /\ obs' = [obs EXCEPT ![p].docs =
                  {files.doc} \cup {obs[q].old : q \in {r \in PESSOAS : pc[r] \in SavePcs}}]
    /\ UNCHANGED <<files, quar, lock, ctx, mem, fd, late, msg, result, cacheVars>>

\* init_arquivo_se_faltar
LdInit(p) ==
    /\ UNCHANGED <<normVars, calcVars, runs, now>>
    /\ pc[p] = "ld_init"
    /\ IF Exists(files.doc)
       THEN /\ pc' = [pc EXCEPT ![p] = "ld_read"]
            /\ UNCHANGED <<ctx, mem, late, result, obs>>
       ELSE CallSalvar(p, "init", _default_frames)
    /\ UNCHANGED <<files, quar, lock, fd, msg, cache, mt>>

\* the entry of the session's cache under the mtime of the document
CacheHit(p) == {e \in cache[p] : Exists(files.doc) /\ e.mtime = mt.doc}

\* what carregar_excel_cached(ARQUIVO, mtime) returns: the cached result of
\* that mtime, or else what the document path holds
Cached(p) == IF CacheHit(p) # {} THEN (CHOOSE e \in CacheHit(p) : TRUE).doc ELSE files.doc

\* os.path.getmtime, carregar_excel_cached and the branch carregar_excel
\* takes on its result
LdRead(p) ==
    /\ UNCHANGED <<normVars, calcVars, runs, now>>
    /\ pc[p] = "ld_read"
    /\ cache' = [cache EXCEPT ![p] =
                   IF Exists(files.doc) /\ CacheHit(p) = {}
                   THEN @ \cup {[mtime |-> mt.doc, doc |-> files.doc]}
                   ELSE @]
    /\ IF Parseable(Cached(p))
       THEN LET e == EnsureAll(carregar_excel_cached(Cached(p).sheets))
            IN  IF e.changed
                THEN CallSalvar(p, "migrate", e.t)
                ELSE /\ pc' = [pc EXCEPT ![p] = "loaded"]
                     /\ mem' = [mem EXCEPT ![p] = e.t]
                     /\ UNCHANGED <<ctx, late, result, obs>>
       ELSE /\ pc' = [pc EXCEPT ![p] = "ld_quar"]
            /\ obs' = [obs EXCEPT ![p].bad = files.doc]
            /\ UNCHANGED <<ctx, late, result, mem>>
    /\ UNCHANGED <<files, quar, lock, fd, msg, mt>>

\* _quarentena_arquivo, by what its calls did:
\*   "moved"  os.replace worked, or copy2 and os.remove did
\*   "copied" os.replace and os.remove failed, copy2 worked
\*   "failed" os.replace and copy2 failed
Quarentena == {"moved", "copied", "failed"}

\* _quarentena_arquivo(ARQUIVO), then salvar_excel(_default_frames())
LdQuar(p) ==
    /\ UNCHANGED <<normVars, calcVars, runs, now>>
    /\ pc[p] = "ld_quar"
    /\ \E how \in Quarentena :
          /\ how \in {"moved", "copied"} => Exists(files.doc)
          /\ quar' = IF how = "failed" THEN quar ELSE quar \cup {files.doc}
          /\ files' = IF how = "moved" THEN [files EXCEPT !.doc = Missing] ELSE files
          /\ fd' = IF how = "moved"
                   THEN [q \in PESSOAS |-> IF fd[q] = "doc" THEN "gone" ELSE fd[q]]
                   ELSE fd
    /\ CallSalvar(p, "recover", _default_frames)
    /\ UNCHANGED <<lock, msg, cache, mt>>

\* acquire_lock: os.path.exists and the age of the marker
AcqCheck(p) ==
    /\ UNCHANGED <<normVars, calcVars, runs, now>>
    /\ pc[p] = "acq_check"
    /\ pc' = [pc EXCEPT ![p] =
                IF LockExists /\ JudgedStale(lock.age) THEN "acq_remove" ELSE "acq_open"]
    /\ UNCHANGED <<files, quar, lock, ctx, mem, fd, late, msg, result, obs, cache, mt>>

\* acquire_lock: os.remove of the marker judged stale
AcqRemove(p) ==
    /\ UNCHANGED <<normVars, calcVars, runs, now>>
    /\ pc[p] = "acq_remove"
    /\ lock' = NoLock
    /\ obs' = [obs EXCEPT ![p].touched = IF LockExists THEN @ \cup {"stale"} ELSE @]
    /\ pc' = [pc EXCEPT ![p] = "acq_open"]
    /\ UNCHANGED <<files, quar, ctx, mem, fd, late, msg, result, cache, mt>>

\* acquire_lock: os.open(O_CREAT | O_EXCL) creates the marker
AcqOpen(p) ==
    /\ UNCHANGED <<normVars, calcVars, runs, now>>
    /\ pc[p] = "acq_open"
    /\ ~LockExists
    /\ lock' = Marker(p, 0)
    /\ pc' = [pc EXCEPT ![p] = "w_backup"]
    /\ obs' = [q \in PESSOAS |->
                 IF q = p THEN [obs[q] EXCEPT !.touched = @ \cup {"lock"}]
                 ELSE IF pc[q] \in SavePcs THEN [obs[q] EXCEPT !.barged = TRUE]
                 ELSE obs[q]]
    /\ UNCHANGED <<files, quar, ctx, mem, fd, late, msg, result, cache, mt>>

\* acquire_lock: FileExistsError within the timeout, sleep and try again
AcqRetry(p) ==
    /\ UNCHANGED <<normVars, calcVars, runs, now>>
    /\ pc[p] = "acq_open"
    /\ LockExists
    /\ ~late[p]
    /\ pc' = [pc EXCEPT ![p] = "acq_check"]
    /\ UNCHANGED <<files, quar, lock, ctx, mem, fd, late, msg, result, obs, cache, mt>>

\* mutant: the acquire inside the try, so that its finally releases
OnTimeoutFinally == "release_exc"

\* where salvar_excel goes when acquire_lock returns False: it raises
OnTimeout == "raise"

\* salvar_excel is over with r and its caller goes on: init_arquivo_se_faltar
\* returns to the read; carregar_excel clears the cache and returns the
\* tables; a form handler clears the cache and ends the run; an exception
\* reaches the top of the script ("raised")
AfterSave(p, r) ==
    /\ result' = [result EXCEPT ![p] = IF r = "ok" THEN "none" ELSE r]
    /\ pc' = [pc EXCEPT ![p] =
                IF r # "ok" THEN "raised"
                ELSE IF ctx[p] = "init" THEN "ld_read"
                ELSE IF ctx[p] \in {"recover", "migrate"} THEN "loaded"
                ELSE "idle"]
    /\ msg' = [msg EXCEPT ![p] = @ \/ (r = "ok" /\ ctx[p] = "recover")]
    /\ mem' = [mem EXCEPT ![p] =
                IF r = "ok" /\ ctx[p] \in {"recover", "migrate"} THEN @ ELSE NoFrames]
    /\ ctx' = [ctx EXCEPT ![p] = IF pc'[p] = "idle" THEN "none" ELSE @]
    /\ late' = [late EXCEPT ![p] = FALSE]
    /\ cache' = [cache EXCEPT ![p] = IF r = "ok" /\ ctx[p] # "init" THEN {} ELSE @]

\* acquire_lock: FileExistsError past the timeout, return False
AcqTimeout(p) ==
    /\ UNCHANGED <<normVars, calcVars, runs, now>>
    /\ pc[p] = "acq_open"
    /\ LockExists
    /\ late[p]
    /\ IF OnTimeout = "raise"
       THEN AfterSave(p, "timeout")
       ELSE /\ pc' = [pc EXCEPT ![p] = OnTimeout]
            /\ result' = [result EXCEPT ![p] = "timeout"]
            /\ UNCHANGED <<msg, mem, ctx, late, cache>>
    /\ UNCHANGED <<files, quar, lock, fd, obs, mt>>

\* the timestamps the caches hold results under
CachedStamps == {e.mtime : e \in UNION {cache[p] : p \in PESSOAS}}

\* the clock after time went by: a file written from now on has a timestamp
\* no cache holds
Later == IF now \in CachedStamps THEN now + 1 ELSE now

\* the timeout of a waiting acquire_lock elapses
Deadline(p) ==
    /\ UNCHANGED <<normVars, calcVars, runs>>
    /\ now' = Later
    /\ pc[p] \in AcqPcs
    /\ ~late[p]
    /\ late' = [late EXCEPT ![p] = TRUE]
    /\ UNCHANGED <<files, quar, lock, pc, ctx, mem, fd, msg, result, obs, cache, mt>>

\* TickSeconds go by: the marker ages, waiting acquire_lock calls time out
Tick ==
    /\ UNCHANGED <<normVars, calcVars, runs>>
    /\ now' = Later
    /\ LockExists
    /\ lock.age < MaxAge
    /\ lock' = [lock EXCEPT !.age = @ + 1]
    /\ late' = [p \in PESSOAS |->
                  late[p] \/ (pc[p] \in AcqPcs /\ TickSeconds > timeout_seconds)]
    /\ UNCHANGED <<files, quar, pc, ctx, mem, fd, msg, result, obs, cache, mt>>

\* _write_bytes_atomic: shutil.copy2(path, bak_path), which may fail
WBackup(p) ==
    /\ UNCHANGED <<normVars, calcVars, runs, now>>
    /\ pc[p] = "w_backup"
    /\ \E copied \in BOOLEAN :
          /\ copied => Exists(files.doc)
          /\ files' = IF copied THEN [files EXCEPT !.bak = files.doc] ELSE files
          /\ obs' = [obs EXCEPT ![p].touched = IF copied THEN @ \cup {"bak"} ELSE @]
    /\ pc' = [pc EXCEPT ![p] = "w_open"]
    /\ UNCHANGED <<quar, lock, ctx, mem, fd, late, msg, result, cache, mt>>

\* _write_bytes_atomic: open(tmp_path, "wb") creates or truncates the file
WOpen(p) ==
    /\ UNCHANGED <<normVars, calcVars, runs, now>>
    /\ pc[p] = "w_open"
    /\ files' = [files EXCEPT !.tmp = Truncated]
    /\ mt' = [mt EXCEPT !.tmp = now]
    /\ fd' = [fd EXCEPT ![p] = "tmp"]
    /\ obs' = [obs EXCEPT ![p].touched = @ \cup {"tmp"}]
    /\ pc' = [pc EXCEPT ![p] = "w_write"]
    /\ UNCHANGED <<quar, lock, ctx, mem, late, msg, result, cache>>

\* _write_bytes_atomic: f.write(data), flush, fsync, close.  The bytes go to
\* the file the handle is on, which a rename by another session has moved
WWrite(p) ==
    /\ UNCHANGED <<normVars, calcVars, runs, now>>
    /\ pc[p] = "w_write"
    /\ files' = IF fd[p] \in {"tmp", "doc"}
                THEN [files EXCEPT ![fd[p]] = Workbook(SaveBytes(mem[p]))]
                ELSE files
    /\ mt' = IF fd[p] \in {"tmp", "doc"} THEN [mt EXCEPT ![fd[p]] = now] ELSE mt
    /\ obs' = SeenBy([obs EXCEPT ![p].touched = IF fd[p] = "doc" THEN @ \cup {"doc"} ELSE @,
                                 ![p].old = IF fd[p] = "doc" THEN files.doc ELSE @],
                     files'.doc)
    /\ fd' = [fd EXCEPT ![p] = "none"]
    /\ pc' = [pc EXCEPT ![p] = "w_replace"]
    /\ UNCHANGED <<quar, lock, ctx, mem, late, msg, result, cache>>

\* _write_bytes_atomic: os.replace(tmp_path, path)
WReplace(p) ==
    /\ UNCHANGED <<normVars, calcVars, runs, now>>
    /\ pc[p] = "w_replace"
    /\ IF Exists(files.tmp)
       THEN /\ files' = [files EXCEPT !.doc = files.tmp, !.tmp = Missing]
            /\ mt' = [mt EXCEPT !.doc = mt.tmp]
            /\ fd' = [q \in PESSOAS |->
                        IF fd[q] = "tmp" THEN "doc" ELSE IF fd[q] = "doc" THEN "gone" ELSE fd[q]]
            /\ obs' = SeenBy([obs EXCEPT ![p].touched = @ \cup {"doc"}, ![p].old = files.doc],
                             files'.doc)
            /\ pc' = [pc EXCEPT ![p] = "release"]
            /\ UNCHANGED result
       ELSE /\ pc' = [pc EXCEPT ![p] = "release_exc"]
            /\ result' = [result EXCEPT ![p] = "ioerror"]
            /\ UNCHANGED <<files, fd, obs, mt>>
    /\ UNCHANGED <<quar, lock, ctx, mem, late, msg, cache>>

\* release_lock: os.remove of the marker at the path, if one exists
release_lock(l) == NoLock

\* mutant: release_lock after _write_bytes_atomic instead of in a finally
SemFinally(l, at) == IF at = "release" THEN release_lock(l) ELSE l

\* the marker when salvar_excel is left from `at`, through its finally
Finally(l, at) == release_lock(l)

\* release_lock in the finally of salvar_excel, and the return or raise
Release(p) ==
    /\ UNCHANGED <<normVars, calcVars, runs, now>>
    /\ pc[p] \in {"release", "release_exc"}
    /\ lock' = Finally(lock, pc[p])
    /\ AfterSave(p, IF pc[p] = "release" THEN "ok" ELSE result[p])
    /\ obs' = [q \in PESSOAS |->
                 IF q = p
                 THEN IF pc[p] = "release"
                      THEN [NoObs EXCEPT !.docs = obs[p].docs, !.saved = ctx[p] = "ui"]
                      ELSE [obs[q] EXCEPT !.touched = IF LockExists THEN @ \cup {"lock"} ELSE @]
                 ELSE IF pc[q] \in SavePcs /\ ~late[q] THEN [obs[q] EXCEPT !.relDuring = TRUE]
                 ELSE obs[q]]
    /\ UNCHANGED <<files, quar, fd, mt>>

\* "Salvar gasto": the session appends its entry and saves
UiSave(p) ==
    /\ UNCHANGED <<normVars, calcVars, runs, now>>
    /\ pc[p] = "loaded"
    /\ ~HasEntryOf(mem[p], p)
    /\ CallSalvar(p, "ui", AddGasto(mem[p], p))
    /\ UNCHANGED <<files, quar, lock, fd, msg, cache, mt>>

\* the script run ends: without a form submit, or on the exception
EndRun(p) ==
    /\ UNCHANGED <<normVars, calcVars, runs, now>>
    /\ pc[p] \in {"loaded", "raised"}
    /\ pc' = [pc EXCEPT ![p] = "idle"]
    /\ mem' = [mem EXCEPT ![p] = NoFrames]
    /\ result' = [result EXCEPT ![p] = "none"]
    /\ obs' = [obs EXCEPT ![p] = NoObs]
    /\ ctx' = [ctx EXCEPT ![p] = "none"]
    /\ UNCHANGED <<files, quar, lock, fd, late, msg, cache, mt>>

\* the process of the session dies inside salvar_excel; the session's next
\* run is a new process
Crash(p) ==
    /\ UNCHANGED <<normVars, calcVars, runs, now>>
    /\ pc[p] \in SavePcs
    /\ pc' = [pc EXCEPT ![p] = "idle"]
    /\ fd' = [fd EXCEPT ![p] = "none"]
    /\ mem' = [mem EXCEPT ![p] = NoFrames]
    /\ ctx' = [ctx EXCEPT ![p] = "none"]
    /\ late' = [late EXCEPT ![p] = FALSE]
    /\ result' = [result EXCEPT ![p] = "none"]
    /\ obs' = [obs EXCEPT ![p] = NoObs]
    /\ cache' = [cache EXCEPT ![p] = {}]
    /\ UNCHANGED <<files, quar, lock, msg, mt>>

\* the tables carregar_excel returns of a document it need not repair
Loaded(d) == EnsureAll(carregar_excel_cached(d.sheets)).t

\* the marker of a process that died holding it
Orphan == Marker("-", 0)

(***************************************************************************)
(* SpecSave: two sessions that have loaded the document each submit a      *)
(* form, so that their salvar_excel calls run against each other, against  *)
(* the clock and against the marker of a dead process.                     *)
(***************************************************************************)
SaveInit ==
    /\ NormIdle
    /\ \E t \in {Missing, Truncated} :
          files = [doc |-> DefaultDoc, tmp |-> t, bak |-> Missing]
    /\ quar = {}
    /\ lock \in {NoLock, Orphan}
    /\ pc = [p \in PESSOAS |-> "loaded"]
    /\ ctx = [p \in PESSOAS |-> "none"]
    /\ mem = [p \in PESSOAS |-> Loaded(DefaultDoc)]
    /\ fd = [p \in PESSOAS |-> "none"]
    /\ late = [p \in PESSOAS |-> FALSE]
    /\ msg = [p \in PESSOAS |-> FALSE]
    /\ result = [p \in PESSOAS |-> "none"]
    /\ obs = [p \in PESSOAS |-> NoObs]
    /\ runs = [p \in PESSOAS |-> MaxRuns]
    /\ cache = [p \in PESSOAS |-> {}]
    /\ mt = [doc |-> 0, tmp |-> 0]
    /\ now = 0

SaveNext ==
    \/ \E p \in PESSOAS : UiSave(p)
    \/ \E p \in PESSOAS : AcqCheck(p)
    \/ \E p \in PESSOAS : AcqRemove(p)
    \/ \E p \in PESSOAS : AcqOpen(p)
    \/ \E p \in PESSOAS : AcqRetry(p)
    \/ \E p \in PESSOAS : AcqTimeout(p)
    \/ \E p \in PESSOAS : Deadline(p)
    \/ \E p \in PESSOAS : WBackup(p)
    \/ \E p \in PESSOAS : WOpen(p)
    \/ \E p \in PESSOAS : WWrite(p)
    \/ \E p \in PESSOAS : WReplace(p)
    \/ \E p \in PESSOAS : Release(p)
    \/ \E p \in PESSOAS : EndRun(p)
    \/ \E p \in PESSOAS : Crash(p)
    \/ Tick

SpecSave == SaveInit /\ [][SaveNext]_vars

(***************************************************************************)
(* SpecLoad: one session runs its script, up to MaxRuns times, on a        *)
(* document it finds on disk, with the marker free or left by a process    *)
(* that died; the other session never connects.                            *)
(***************************************************************************)
\* dados.xlsx as an earlier version of the program may have written it
LegacyGastos == {EmptyFrame(GASTOS_COLS),
                 [cols |-> GASTOS_COLS, rows |-> <<GastosRow(NA, FALSE)>>, boolcols |-> {}]}

LegacyFixas == {EmptyFrame(FIXAS_COLS),
                [cols |-> FIXAS_COLS, rows |-> <<FixasRow(Str(T_f1), "dirty")>>, boolcols |-> {}]}

LegacyReservas == {EmptyFrame(RESERVAS_COLS), _default_frames.r}

LegacyDocs ==
    {Workbook(excel_bytes(Frames(g, _default_frames.m, f, r, EmptyFrame(MOVRES_COLS)))) :
        g \in LegacyGastos, f \in LegacyFixas, r \in LegacyReservas}

LoadInit ==
    /\ NormIdle
    /\ \E d \in {Missing, Corrupt, Truncated} \cup LegacyDocs :
          files = [doc |-> d, tmp |-> Missing, bak |-> Missing]
    /\ quar = {}
    /\ lock \in {NoLock, Orphan}
    /\ pc = [p \in PESSOAS |-> "idle"]
    /\ ctx = [p \in PESSOAS |-> "none"]
    /\ mem = [p \in PESSOAS |-> NoFrames]
    /\ fd = [p \in PESSOAS |-> "none"]
    /\ late = [p \in PESSOAS |-> FALSE]
    /\ msg = [p \in PESSOAS |-> FALSE]
    /\ result = [p \in PESSOAS |-> "none"]
    /\ obs = [p \in PESSOAS |-> NoObs]
    /\ runs = [p \in PESSOAS |-> IF p = "Roney" THEN 0 ELSE MaxRuns]
    /\ cache = [p \in PESSOAS |-> {}]
    /\ mt = [doc |-> 0, tmp |-> 0]
    /\ now = 0

LoadNext ==
    \/ \E p \in PESSOAS : StartRun(p)
    \/ \E p \in PESSOAS : LdInit(p)
    \/ \E p \in PESSOAS : LdRead(p)
    \/ \E p \in PESSOAS : LdQuar(p)
    \/ \E p \in PESSOAS : AcqCheck(p)
    \/ \E p \in PESSOAS : AcqRemove(p)
    \/ \E p \in PESSOAS : AcqOpen(p)
    \/ \E p \in PESSOAS : AcqRetry(p)
    \/ \E p \in PESSOAS : AcqTimeout(p)
    \/ \E p \in PESSOAS : Deadline(p)
    \/ \E p \in PESSOAS : WBackup(p)
    \/ \E p \in PESSOAS : WOpen(p)
    \/ \E p \in PESSOAS : WWrite(p)
    \/ \E p \in PESSOAS : WReplace(p)
    \/ \E p \in PESSOAS : Release(p)
    \/ \E p \in PESSOAS : UiSave(p)
    \/ \E p \in PESSOAS : EndRun(p)
    \/ \E p \in PESSOAS : Crash(p)
    \/ Tick

SpecLoad == LoadInit /\ [][LoadNext]_vars

(***************************************************************************)
(* Properties of the store.                                                *)
(***************************************************************************)
Holders == {p \in PESSOAS : pc[p] \in HoldPcs}

\* C1: at most one session at a time is between a successful acquire_lock
\* and its release_lock inside salvar_excel.
C1_MutualExclusion == Cardinality(Holders) <= 1

\* C2: whenever no session is inside salvar_excel, whether its call
\* returned, raised or died with the process, the document path holds a
\* complete workbook.
C2_DocumentComplete ==
    (\A p \in PESSOAS : pc[p] \notin SavePcs) => Parseable(files.doc)

\* C3: a carregar_excel that found the document unparseable returns
\* normally: no exception of its salvar_excel call reaches the script.
C3_RecoveryReturns ==
    \A p \in PESSOAS : ~(pc[p] = "raised" /\ ctx[p] = "recover")

\* C4 (as stated): a salvar_excel call that raised because acquire_lock gave
\* up changed neither the document, the .bak, the .tmp nor the marker.
C4_TimeoutTouchesNothing ==
    \A p \in PESSOAS : result[p] = "timeout" => obs[p].touched = {}

\* C4 (amended): a salvar_excel call that raised because acquire_lock gave
\* up changed neither the document, the .bak nor the .tmp, and changed the
\* marker at most by removing one it judged stale.
C4_TimeoutOnlyRemovesStale ==
    \A p \in PESSOAS : result[p] = "timeout" => obs[p].touched \subseteq {"stale"}

C4_Witness ==
    \E p \in PESSOAS :
        pc[p] = "raised" /\ result[p] = "timeout" /\ obs[p].touched = {"stale"}

\* C5 (as stated): the first acquire_lock call made once the marker is older
\* than stale_seconds acquires the lock: its salvar_excel does not time out.
C5_NextCallAcquires ==
    \A p \in PESSOAS : obs[p].staleAtStart => result[p] # "timeout"

\* C5 (amended): the first acquire_lock call made once the marker is older
\* than stale_seconds times out only if another session created the marker
\* during the call.
C5_StaleBlocksOnlyIfBarged ==
    \A p \in PESSOAS :
        obs[p].staleAtStart /\ result[p] = "timeout" => obs[p].barged

C5_Witness ==
    \E p \in PESSOAS :
        /\ pc[p] \in HoldPcs
        /\ obs[p].staleAtStart
        /\ "stale" \in obs[p].touched
        /\ ~obs[p].barged
        /\ lock = Marker(p, 0)

\* C6: a salvar_excel call during which the other session released the lock
\* before the call's timeout, and during which no other session took the
\* lock anew, does not fail.
C6_SucceedsAfterRelease ==
    \A p \in PESSOAS :
        obs[p].relDuring /\ ~obs[p].barged => result[p] \notin {"timeout", "ioerror"}

\* C7: after carregar_excel has re-saved the document because a normalizer
\* reported a change, a carregar_excel of that document finds nothing to
\* change.
C7_MigratesOnce ==
    \A p \in PESSOAS :
        pc[p] = "loaded" /\ ctx[p] = "migrate" /\ Parseable(files.doc)
            => ~EnsureAll(carregar_excel_cached(files.doc.sheets)).changed

(***************************************************************************)
(* SpecNorm: a normalizer applied to a table, then to its own output.      *)
(***************************************************************************)
NormCurrent == IF nres = <<>> THEN ntab ELSE nres[Len(nres)].df

Ensured(r) == [op |-> "ensure", df |-> r.df, changed |-> r.changed]

NormInit ==
    /\ nkind \in Kinds
    /\ ntab \in InputTables(nkind)
    /\ nres = <<>>
    /\ cfn = "none"
    /\ cin = <<>>
    /\ cout = <<>>
    /\ StoreIdle

NormGastos ==
    /\ nkind = "gastos" /\ Len(nres) < 2
    /\ \E ids \in Uuid4Calls(IdsNeeded(nkind, NormCurrent), UsedIds(nkind, NormCurrent)) :
          nres' = Append(nres, Ensured(_ensure_gastos_schema(NormCurrent, ids)))
    /\ UNCHANGED <<nkind, ntab>>
    /\ UNCHANGED <<storeVars, calcVars>>

NormMetas ==
    /\ nkind = "metas" /\ Len(nres) < 3
    /\ nres' = Append(nres, Ensured(_ensure_metas_schema(NormCurrent)))
    /\ UNCHANGED <<nkind, ntab>>
    /\ UNCHANGED <<storeVars, calcVars>>

NormFixas ==
    /\ nkind = "fixas" /\ Len(nres) < 2
    /\ \E ids \in Uuid4Calls(IdsNeeded(nkind, NormCurrent), UsedIds(nkind, NormCurrent)) :
          nres' = Append(nres, Ensured(_ensure_fixas_schema(NormCurrent, ids)))
    /\ UNCHANGED <<nkind, ntab>>
    /\ UNCHANGED <<storeVars, calcVars>>

NormReservas ==
    /\ nkind = "reservas" /\ Len(nres) < 2
    /\ \E ids \in Uuid4Calls(IdsNeeded(nkind, NormCurrent), UsedIds(nkind, NormCurrent)) :
          nres' = Append(nres, Ensured(_ensure_reservas_schema(NormCurrent, ids)))
    /\ UNCHANGED <<nkind, ntab>>
    /\ UNCHANGED <<storeVars, calcVars>>

NormMovres ==
    /\ nkind = "movres" /\ Len(nres) < 2
    /\ \E ids \in Uuid4Calls(IdsNeeded(nkind, NormCurrent), UsedIds(nkind, NormCurrent)) :
          nres' = Append(nres, Ensured(_ensure_movres_schema(NormCurrent, ids)))
    /\ UNCHANGED <<nkind, ntab>>
    /\ UNCHANGED <<storeVars, calcVars>>

\* the Metas tab: set_meta_geral on the loaded (normalized) table
SetMetaGeral ==
    /\ nkind = "metas" /\ Len(nres) = 1
    /\ \E v \in {0, 3000} :
          nres' = Append(nres, [op |-> "set_meta", df |-> set_meta_geral(NormCurrent, v),
                                changed |-> FALSE])
    /\ UNCHANGED <<nkind, ntab>>
    /\ UNCHANGED <<storeVars, calcVars>>

NormNext ==
    \/ NormGastos
    \/ NormMetas
    \/ NormFixas
    \/ NormReservas
    \/ NormMovres
    \/ SetMetaGeral

SpecNorm == NormInit /\ [][NormNext]_vars

(***************************************************************************)
(* Properties of the normalizers.                                          *)
(***************************************************************************)

\* C8: idempotent normalization.  For each of the five normalizers, a call
\* made on a table that a normalizer returned gives back the same table and
\* reports changed = FALSE.
C8_Idempotent ==
    \A i \in 2..Len(nres) :
        nres[i].op = "ensure" => nres[i].df = nres[i - 1].df /\ ~nres[i].changed

\* C8 witness: a first call that corrected its input, followed by a second
\* call on its output.
C8_Witness ==
    /\ Len(nres) >= 2
    /\ nres[1].op = "ensure" /\ nres[2].op = "ensure"
    /\ nres[1].changed
    /\ nres[1].df # ntab
    /\ nres[1].df.rows # <<>>

GeralCount(df) == Cardinality(RowsWhere(df, IsGeralRow))

\* C9: after _ensure_metas_schema the table holds exactly one row whose
\* category is "Geral" case-insensitively, whatever the input.
C9_ExactlyOneGeral ==
    \A i \in 1..Len(nres) :
        (nkind = "metas" /\ nres[i].op = "ensure") => GeralCount(nres[i].df) = 1

\* the cell of column c in a row of a raw table, whatever the padding of its header
InCell(row, c) ==
    IF \E k \in DOMAIN row : k.name = c.name
    THEN row[CHOOSE k \in DOMAIN row : k.name = c.name]
    ELSE NA

\* the rows of a raw table that have the mandatory key their table demands
KeptRows(kind, df) ==
    SelectSeq(df.rows,
              LAMBDA row : kind \in {"fixas", "reservas"} => ~NeedsId(InCell(row, KeyColOf(kind))))

NormInput(i) == IF i = 1 THEN ntab ELSE nres[i - 1].df

IdsKeptAndFresh(kind, in, out) ==
    LET kept == KeptRows(kind, in)
        idc == IdColOf(kind)
    IN  /\ Len(out.rows) = Len(kept)
        /\ \A j \in 1..Len(kept) :
              LET inId == InCell(kept[j], idc)
                  outId == out.rows[j][idc]
              IN  /\ ~NeedsId(inId) => outId = Str(PyStr(inId))
                  /\ NeedsId(inId) =>
                        /\ ~NeedsId(outId)
                        /\ \A k \in 1..Len(kept) : k # j => out.rows[k][idc] # outId
                        /\ \A k \in 1..Len(in.rows) :
                              ~NeedsId(InCell(in.rows[k], idc)) =>
                                  PyStr(InCell(in.rows[k], idc)) # outId.s
        /\ (\A j, k \in 1..Len(kept) :
               (j # k /\ ~NeedsId(InCell(kept[j], idc)) /\ ~NeedsId(InCell(kept[k], idc)))
                  => PyStr(InCell(kept[j], idc)) # PyStr(InCell(kept[k], idc)))
           => \A j, k \in 1..Len(out.rows) : j # k => out.rows[j][idc] # out.rows[k][idc]

\* C10: identifier assignment.  A normalizer leaves the identifier of every
\* row that had a non-blank one as it was, gives every row whose identifier
\* was missing or blank a fresh one that differs from every other identifier
\* of the table, and so keeps pairwise-distinct identifiers pairwise distinct.
C10_IdentifierAssignment ==
    \A i \in 1..Len(nres) :
        (nkind # "metas" /\ nres[i].op = "ensure")
            => IdsKeptAndFresh(nkind, NormInput(i), nres[i].df)

\* C10 witness: a normalized table of two rows, one that came with its
\* identifier and one that was given a fresh one.
C10_Witness ==
    /\ nkind \in {"gastos", "fixas"}
    /\ Len(nres) >= 1
    /\ Len(nres[1].df.rows) = 2
    /\ Len(ntab.rows) = 2
    /\ ~NeedsId(InCell(ntab.rows[1], IdColOf(nkind)))
    /\ NeedsId(InCell(ntab.rows[2], IdColOf(nkind)))
    /\ nres[1].df.rows[1][IdColOf(nkind)] # nres[1].df.rows[2][IdColOf(nkind)]

\* C21: every row of a table _ensure_fixas_schema returns has an integer
\* Dia_Venc from 1 to 31.
C21_DueDayRange ==
    \A i \in 1..Len(nres) :
        (nkind = "fixas" /\ nres[i].op = "ensure")
            => \A j \in 1..Len(nres[i].df.rows) :
                  LET dia == nres[i].df.rows[j][Col("Dia_Venc")]
                  IN  IsNum(dia) /\ dia.n \in 1..31

\* C22: a normalizer reports changed = TRUE exactly when the table it
\* returns differs from the table it was given.
C22_ChangeFlag ==
    \A i \in 1..Len(nres) :
        nres[i].op = "ensure" => (nres[i].changed <=> nres[i].df # NormInput(i))

(***************************************************************************)
(* Installments.  Amounts are whole cents; NA stands for None.             *)
(***************************************************************************)
\* Bounds of the helper inputs: the most installments asked for, and the
\* largest small total (in cents) split
MaxParcelas == 4
MaxTotal == 12

IsLeap(ano) == (ano % 4 = 0 /\ ano % 100 # 0) \/ ano % 400 = 0

\* calendar.monthrange(ano, mes)[1]
ultimo_dia_mes(ano, mes) ==
    IF mes = 2 THEN (IF IsLeap(ano) THEN 29 ELSE 28)
    ELSE IF mes \in {4, 6, 9, 11} THEN 30 ELSE 31

Min(a, b) == IF a < b THEN a ELSE b
Max(a, b) == IF a > b THEN a ELSE b

\* mutant: the year not carried over December
add_meses_nocarry(d, meses) ==
    LET mes == ((d.m - 1 + meses) % 12) + 1
    IN  Date(d.y, mes, Min(d.d, ultimo_dia_mes(d.y, mes)))

add_meses(d, meses) ==
    LET ano == d.y + ((d.m - 1 + meses) \div 12)
        mes == ((d.m - 1 + meses) % 12) + 1
        dia == Min(d.d, ultimo_dia_mes(ano, mes))
    IN  Date(ano, mes, dia)

\* round(num / den, 0) of a quotient of cents, num >= 0 and den >= 1.  The
\* float nearest to a value halfway between two cents lies on either side
\* of it: `up` is the side it lies on
RoundDiv(num, den, up) ==
    LET q == num \div den
        r == num % den
    IN  IF 2 * r < den THEN q
        ELSE IF 2 * r > den THEN q + 1
        ELSE IF up THEN q + 1 ELSE q

\* mutant: the last installment left at the base amount
repartir_sem_ajuste(valor_total, n0, up) ==
    [i \in 1..Max(1, n0) |-> RoundDiv(valor_total, Max(1, n0), up)]

repartir_valor_em_parcelas(valor_total, n0, up) ==
    LET n == Max(1, n0)
        base == RoundDiv(valor_total, n, up)
        ajuste == valor_total - base * n
    IN  [i \in 1..n |-> IF i = n THEN base + ajuste ELSE base]

Sufixo(i, n) ==
    <<" ", "(", "P", "a", "r", "c", "e", "l", "a", " ">> \o DigitsOf(i) \o <<"/">>
        \o DigitsOf(n) \o <<")">>

GrupoTag(grupo) == <<"G", "R", "U", "P", "O", "=">> \o grupo

\* mutant: the requested day used as given
DiaParcelaAsGiven(dia_parcela, primeira_data) ==
    IF IsNA(dia_parcela) THEN primeira_data.d ELSE Max(1, Min(dia_parcela.n, 31))

\* the billing day gerar_lancamentos_parcelados settles on
DiaParcela(dia_parcela, primeira_data) ==
    LET d0 == IF IsNA(dia_parcela) THEN primeira_data.d ELSE dia_parcela.n
        d1 == Max(1, Min(d0, 31))
    IN  IF d1 = 1 THEN 2 ELSE d1

\* the i-th (0-indexed) entry of the loop of gerar_lancamentos_parcelados
Parcela(base, n, i, primeira_data, dia, valores, grupo, id) ==
    LET dt0 == add_meses(primeira_data, i)
        dt == Date(dt0.y, dt0.m, Min(dia, ultimo_dia_mes(dt0.y, dt0.m)))
        sub == strip(PyStr(base[Col("Subcategoria")]))
        obs0 == strip(PyStr(base[Col("Obs")]))
        Cell(c) ==
          CASE c = Col("ID") -> Str(id)
            [] c = Col("Data") -> dt
            [] c = Col("Valor") -> Num(valores[i + 1])
            [] c = Col("Origem") -> Str(<<"P","A","R","C","E","L","A","D","O">>)
            [] c = Col("Obs") ->
                 Str(strip(IF obs0 # <<>> THEN obs0 \o <<" ", "|", " ">> \o GrupoTag(grupo)
                           ELSE GrupoTag(grupo)))
            [] c = Col("Subcategoria") ->
                 Str(IF sub # <<>> THEN strip(sub \o Sufixo(i + 1, n)) ELSE strip(Sufixo(i + 1, n)))
            [] OTHER -> base[c]
    IN  [c \in DOMAIN base |-> Cell(c)]

\* `ids` are the values of the uuid4() calls: the group first, then one per entry
gerar_lancamentos_parcelados(df_gastos, base, parcelas, primeira_data, dia_parcela, up, ids) ==
    IF parcelas <= 1 THEN df_gastos
    ELSE LET n == parcelas
             dia == DiaParcela(dia_parcela, primeira_data)
             valores == repartir_valor_em_parcelas(base[Col("Valor")].n, n, up)
             novos == [k \in 1..n |->
                         Parcela(base, n, k - 1, primeira_data, dia, valores, ids[1], ids[k + 1])]
             cat == [cols |-> df_gastos.cols, rows |-> df_gastos.rows \o novos, boolcols |-> {}]
         IN  _ensure_gastos_schema(cat, <<>>).df

(***************************************************************************)
(* Recurring bills.                                                        *)
(***************************************************************************)
UpperCh(ch) ==
    IF \E i \in 1..26 : LowerCase[i] = ch
    THEN UpperCase[CHOOSE i \in 1..26 : LowerCase[i] = ch]
    ELSE ch

\* str.upper()
upper(t) == [i \in 1..Len(t) |-> UpperCh(t[i])]

T_FIXA == <<"F","I","X","A">>

\* (Data_dt.dt.year == ano) & (Data_dt.dt.month == mes) of one row
NoMes(row, ano, mes) ==
    LET dt == ToDate(row[Col("Data")])
    IN  IsDate(dt) /\ dt.y = ano /\ dt.m = mes

\* mutant: the month of the entry not looked at
ja_lancou_qualquer_mes(df_gastos, ano, mes, id_fixa) ==
    \E i \in 1..Len(df_gastos.rows) :
        /\ upper(PyStr(df_gastos.rows[i][Col("Origem")])) = T_FIXA
        /\ strip(PyStr(df_gastos.rows[i][Col("RefFixa")])) = id_fixa

ja_lancou_fixa_no_mes(df_gastos, ano, mes, id_fixa) ==
    \E i \in 1..Len(df_gastos.rows) :
        /\ NoMes(df_gastos.rows[i], ano, mes)
        /\ upper(PyStr(df_gastos.rows[i][Col("Origem")])) = T_FIXA
        /\ strip(PyStr(df_gastos.rows[i][Col("RefFixa")])) = id_fixa

\* f["Ativo"] == True of one cell
IsTrue(c) == c = Bool(TRUE) \/ c = Num(1)

fixas_ativas(df_fixas) ==
    LET f == IF df_fixas.rows = <<>> THEN _ensure_fixas_schema(df_fixas, <<>>).df ELSE df_fixas
    IN  [f EXCEPT !.rows = SelectSeq(f.rows, LAMBDA row : IsTrue(row[Col("Ativo")]))]

\* the entry the generator appends for a template
LancamentoFixa(fixa, ano, mes, id) ==
    LET Cell(name) ==
          CASE name = "ID" -> Str(id)
            [] name = "Data" ->
                 Date(ano, mes, Max(1, Min(fixa[Col("Dia_Venc")].n, ultimo_dia_mes(ano, mes))))
            [] name = "Categoria" -> fixa[Col("Categoria")]
            [] name = "Subcategoria" -> Str(<<>>)
            [] name = "Valor" -> fixa[Col("Valor")]
            [] name = "Pagamento" -> fixa[Col("Pagamento")]
            [] name = "Quem" -> fixa[Col("Quem")]
            [] name = "Obs" -> fixa[Col("Descricao")]
            [] name = "Origem" -> Str(T_FIXA)
            [] name = "RefFixa" -> Str(PyStr(fixa[Col("ID_Fixa")]))
    IN  [c \in Range(GASTOS_COLS) |-> Cell(c.name)]

RECURSIVE GerarLoop(_, _, _, _, _)
\* the generator's loop over the active templates: [df, created, skipped]
GerarLoop(acc, fixas, ano, mes, from) ==
    IF fixas = <<>> THEN acc
    ELSE LET fixa == Head(fixas)
             id == PyStr(fixa[Col("ID_Fixa")])
         IN  IF ja_lancou_fixa_no_mes(acc.df, ano, mes, id)
             THEN GerarLoop([acc EXCEPT !.skipped = @ + 1], Tail(fixas), ano, mes, from)
             ELSE LET novo == FirstUuids(1, TextsIn(acc.df, Col("ID")), from)[1]
                  IN  GerarLoop([acc EXCEPT
                                   !.df.rows = Append(@, LancamentoFixa(fixa, ano, mes, novo)),
                                   !.created = @ + 1],
                                Tail(fixas), ano, mes, from)

\* generate(ledger, bills, year, month)
gerar_fixas_do_mes(df_gastos, df_fixas, ano, mes) ==
    GerarLoop([df |-> df_gastos, created |-> 0, skipped |-> 0],
              fixas_ativas(df_fixas).rows, ano, mes, 1)

(***************************************************************************)
(* Roll-ups.                                                               *)
(***************************************************************************)
RECURSIVE SumValor(_)
\* float(df["Valor"].sum()), 0 for an empty table
SumValor(rows) ==
    IF rows = <<>> THEN 0 ELSE Head(rows)[Col("Valor")].n + SumValor(Tail(rows))

\* mutant: an entry under the category of an active template taken as fixed
EhFixaPorCategoria(row, f, ids_fixas) ==
    \/ upper(PyStr(row[Col("Origem")])) = T_FIXA
    \/ strip(PyStr(row[Col("RefFixa")])) \in ids_fixas
    \/ \E i \in 1..Len(f.rows) : f.rows[i][Col("Categoria")] = row[Col("Categoria")]

\* is_fixa of one row of marcar_e_separar_fixas
EhFixa(row, f, ids_fixas) ==
    \/ upper(PyStr(row[Col("Origem")])) = T_FIXA
    \/ strip(PyStr(row[Col("RefFixa")])) \in ids_fixas

\* df[df["is_fixa"]] when fixa, df[~df["is_fixa"]] when not
ComIsFixa(g, f, ids_fixas, fixa) ==
    [g EXCEPT !.rows = SelectSeq(g.rows, LAMBDA row : EhFixa(row, f, ids_fixas) = fixa)]

\* the totals and the two normalized parts
Separadas(f, df_var, df_fix) ==
    [planejado |-> SumValor(f.rows), lancado |-> SumValor(df_fix.rows),
     df_var |-> df_var, df_fix |-> df_fix, f |-> f]

\* the split of the period g by the ids of the active templates f
SepararPor(g, f, ids_fixas) ==
    Separadas(f, _ensure_gastos_schema(ComIsFixa(g, f, ids_fixas, FALSE), <<>>).df,
                 _ensure_gastos_schema(ComIsFixa(g, f, ids_fixas, TRUE), <<>>).df)

\* set(f["ID_Fixa"].astype(str).str.strip().tolist())
IdsFixas(f) == {strip(PyStr(f.rows[i][Col("ID_Fixa")])) : i \in 1..Len(f.rows)}

\* the split of the period g by the active templates f
SepararAtivas(g, f) == SepararPor(g, f, IdsFixas(f))

\* [planejado, lancado, df_var, df_fix, f]
marcar_e_separar_fixas(df_periodo, df_fixas) ==
    SepararAtivas(MapCols(df_periodo, {Col("Origem"), Col("RefFixa")}, LAMBDA c : Str(PyStr(c))),
                  fixas_ativas(df_fixas))

filtro_periodo_gastos(df, ano, mes) ==
    _ensure_gastos_schema([df EXCEPT !.rows = SelectSeq(df.rows, LAMBDA row : NoMes(row, ano, mes))],
                          <<>>).df

ORIGENS_NAO_CONTABILIZAR == {<<"P","A","G","T","O","_","F","A","T","U","R","A">>}

\* mutant: the invoice payments left in the period
ComFatura(df) == df

\* df_periodo.loc[~Origem.str.upper().isin(ORIGENS_NAO_CONTABILIZAR)], normalized
SemFatura(df) ==
    _ensure_gastos_schema(
        [df EXCEPT !.rows =
            SelectSeq(df.rows,
                      LAMBDA row : upper(PyStr(row[Col("Origem")]))
                                       \notin {upper(x) : x \in ORIGENS_NAO_CONTABILIZAR})],
        <<>>).df

\* gasto_variavel_mes + float(total_fixas_planejado)
GastoMaisFixas(sep) == SumValor(sep.df_var.rows) + sep.planejado

\* total_prev_mes of the Resumo and Metas pages, of the period without its
\* invoice payments: the amount set against the Geral target
total_prev_mes(df_periodo, df_fixas) ==
    GastoMaisFixas(marcar_e_separar_fixas(df_periodo, df_fixas))

RECURSIVE Contains(_, _)
\* sub in t
Contains(sub, t) ==
    IF Len(t) < Len(sub) THEN FALSE
    ELSE SubSeq(t, 1, Len(sub)) = sub \/ Contains(sub, Tail(t))

\* mutant: every movement taken as a deposit
SinalSempreAporte(tipo) == 1

\* 1 if "aporte" in x else -1, x the Tipo stripped and lower-cased
Sinal(tipo) ==
    IF Contains(<<"a","p","o","r","t","e">>, lower(strip(PyStr(tipo)))) THEN 1 ELSE 0 - 1

RECURSIVE SaldoMov(_, _)
\* mov.groupby("ID_Reserva")["SaldoMov"].sum() for one ID_Reserva
SaldoMov(rows, id) ==
    IF rows = <<>> THEN 0
    ELSE (IF Head(rows)[Col("ID_Reserva")] = id
          THEN Head(rows)[Col("Valor")].n * Sinal(Head(rows)[Col("Tipo")])
          ELSE 0) + SaldoMov(Tail(rows), id)

\* Saldo / Meta * 100.0 as the fraction [num, den], 0.0 as 0 / 1
Percentual(saldo, meta) ==
    IF meta > 0 THEN [num |-> saldo * 100, den |-> meta] ELSE [num |-> 0, den |-> 1]

\* the rows of the table calcular_saldos_reservas returns: the reserve's
\* columns and Saldo, Percentual, Falta
calcular_saldos_reservas(df_reservas, df_mov) ==
    IF df_reservas.rows = <<>> THEN <<>>
    ELSE [i \in 1..Len(df_reservas.rows) |->
            LET row == df_reservas.rows[i]
                saldo == IF df_mov.rows = <<>> THEN 0
                         ELSE SaldoMov(df_mov.rows, row[Col("ID_Reserva")])
                meta == NumericOrZero(row[Col("Meta")]).n
            IN  [row |-> [row EXCEPT ![Col("Meta")] = Num(meta)],
                 Saldo |-> saldo,
                 Percentual |-> Percentual(saldo, meta),
                 Falta |-> Max(meta - saldo, 0)]]

(***************************************************************************)
(* SpecCalc: a helper applied to arguments drawn from small sets.          *)
(***************************************************************************)
Years == {2024, 2025}

FirstDates ==
    {dt \in {Date(y, m, d) : y \in Years, m \in 1..12, d \in {1, 15, 28, 29, 30, 31}} :
        dt.d <= ultimo_dia_mes(dt.y, dt.m)}

\* the entry typed in the "Novo gasto" form
BaseGasto(valor, sub) ==
    [NovoGasto("Roney", <<"b">>) EXCEPT ![Col("Valor")] = Num(valor),
                                        ![Col("Subcategoria")] = Str(sub)]

GastosOf(rows) == [cols |-> GASTOS_COLS, rows |-> rows, boolcols |-> {}]

RepartirInputs == [total : (0..MaxTotal) \cup {10000}, n : 1..(MaxParcelas + 2)]

ParcelarInputs ==
    [df : {GastosOf(<<>>), GastosOf(<<NovoGasto("Adriele", T_a1)>>)},
     base : {BaseGasto(10000, <<>>), BaseGasto(5, T_lazer), BaseGasto(2, <<>>)},
     n : 2..MaxParcelas,
     data : FirstDates,
     dia : {NA, Num(1), Num(2), Num(15), Num(30), Num(31)}]

T_f2 == <<"f","2">>

\* a normalized template
Fixa(id, dia, ativo) ==
    LET Cell(name) ==
          CASE name = "ID_Fixa" -> Str(id)
            [] name = "Descricao" -> Str(<<"l","u","z">>)
            [] name = "Categoria" -> Str(T_lazer)
            [] name = "Valor" -> Num(50000)
            [] name = "Dia_Venc" -> Num(dia)
            [] name = "Ativo" -> Bool(ativo)
            [] OTHER -> Str(<<>>)
    IN  RowOf(FIXAS_COLS, Cell)

FixasOf(rows) == [cols |-> FIXAS_COLS, rows |-> rows, boolcols |-> {Col("Ativo")}]

FixasInputs ==
    {FixasOf(<<>>),
     FixasOf(<<Fixa(T_a1, 31, TRUE)>>),
     FixasOf(<<Fixa(T_a1, 31, TRUE), Fixa(T_f2, 1, TRUE)>>),
     FixasOf(<<Fixa(T_a1, 31, FALSE), Fixa(T_f2, 1, TRUE)>>),
     FixasOf(<<Fixa(T_a1, 15, TRUE), Fixa(T_f2, 30, FALSE)>>)}

\* a normalized ledger entry
Gasto(id, data, cat, valor, origem, ref) ==
    LET Cell(name) ==
          CASE name = "ID" -> Str(id)
            [] name = "Data" -> data
            [] name = "Categoria" -> Str(cat)
            [] name = "Valor" -> Num(valor)
            [] name = "Origem" -> Str(origem)
            [] name = "RefFixa" -> Str(ref)
            [] OTHER -> Str(<<>>)
    IN  RowOf(GASTOS_COLS, Cell)

\* entries a ledger may hold: typed by hand in and out of the month, with
\* the category of a template, undated, invoice payments, and entries of
\* templates materialized in the month and in the month before
GastoSamples ==
    {Gasto(<<"g","1">>, Date(2025, 3, 10), T_lazer, 1000, <<>>, <<>>),
     Gasto(<<"g","2">>, Date(2025, 2, 28), <<"O","u","t">>, 700, <<>>, <<>>),
     Gasto(<<"g","3">>, NA, T_lazer, 300, <<>>, <<>>),
     Gasto(<<"g","4">>, Date(2025, 3, 5), T_lazer, 20000, <<"P","A","G","T","O","_","F","A","T","U","R","A">>, <<>>),
     Gasto(<<"g","5">>, Date(2025, 3, 31), T_lazer, 48000, T_FIXA, T_a1),
     Gasto(<<"g","6">>, Date(2025, 2, 28), T_lazer, 50000, T_FIXA, T_a1),
     Gasto(<<"g","7">>, Date(2025, 3, 1), T_lazer, 50000, T_FIXA, T_f2),
     Gasto(<<"f","1">>, Date(2025, 3, 2), T_lazer, 900, <<>>, T_a1)}

\* Bound: the most entries of an input ledger
MaxGastos == 2

LedgerInputs == {GastosOf(rows) : rows \in SeqsUpTo(GastoSamples, MaxGastos)}

GerarInputs ==
    [df : LedgerInputs, fixas : FixasInputs, ano : {2025}, mes : {2, 3}]

CalcCurrent == IF cout = <<>> THEN cin.df ELSE cout[Len(cout)].df

\* the generator run on the ledger, and again on the ledger it returned
GerarFixas ==
    /\ cfn = "gerar" /\ Len(cout) < 2
    /\ cout' = Append(cout, gerar_fixas_do_mes(CalcCurrent, cin.fixas, cin.ano, cin.mes))
    /\ UNCHANGED <<cfn, cin, normVars, storeVars>>

SepararInputs == [df : LedgerInputs, fixas : FixasInputs]

\* a normalized reserve
Reserva(id, meta, ativo) ==
    LET Cell(name) ==
          CASE name = "ID_Reserva" -> Str(id)
            [] name = "Reserva" -> Str(<<"c","a","s","a">>)
            [] name = "Meta" -> Num(meta)
            [] name = "Ativo" -> Bool(ativo)
            [] OTHER -> Str(<<>>)
    IN  RowOf(RESERVAS_COLS, Cell)

ReservasOf(rows) == [cols |-> RESERVAS_COLS, rows |-> rows, boolcols |-> {Col("Ativo")}]

ReservasInputs ==
    {ReservasOf(<<>>),
     ReservasOf(<<Reserva(T_a1, 600000, TRUE)>>),
     ReservasOf(<<Reserva(T_a1, 600000, TRUE), Reserva(T_f2, 0, TRUE)>>),
     ReservasOf(<<Reserva(T_a1, 100000, FALSE), Reserva(T_f2, 500, TRUE)>>)}

T_Aporte == <<"A","p","o","r","t","e">>
T_Retirada == <<"R","e","t","i","r","a","d","a">>

\* a normalized movement
Mov(id, res, tipo, valor) ==
    LET Cell(name) ==
          CASE name = "ID_Mov" -> Str(id)
            [] name = "Data" -> Date(2025, 3, 10)
            [] name = "ID_Reserva" -> Str(res)
            [] name = "Tipo" -> Str(tipo)
            [] name = "Valor" -> Num(valor)
            [] OTHER -> Str(<<>>)
    IN  RowOf(MOVRES_COLS, Cell)

MovSamples ==
    {Mov(<<"m","1">>, T_a1, T_Aporte, 100000),
     Mov(<<"m","2">>, T_a1, T_Aporte, 50000),
     Mov(<<"m","3">>, T_a1, T_Retirada, 20000),
     Mov(<<"m","4">>, T_f2, T_Aporte, 700),
     Mov(<<"m","5">>, T_f2, T_Retirada, 900)}

\* Bound: the most movements of an input table
MaxMovs == 3

MovInputs ==
    {[cols |-> MOVRES_COLS, rows |-> rows, boolcols |-> {}] :
        rows \in SeqsUpTo(MovSamples, MaxMovs)}

SaldosInputs == [reservas : ReservasInputs, mov : MovInputs]

\* marcar_e_separar_fixas(df, fixas)
Separar ==
    /\ cfn = "separar" /\ cout = <<>>
    /\ cout' = <<marcar_e_separar_fixas(cin.df, cin.fixas)>>
    /\ UNCHANGED <<cfn, cin, normVars, storeVars>>

\* the Resumo page for (ano, mes): df_periodo = filtro_periodo_gastos(...)
ResumoFiltro ==
    /\ cfn = "resumo" /\ cout = <<>>
    /\ cout' = <<filtro_periodo_gastos(cin.df, cin.ano, cin.mes)>>
    /\ UNCHANGED <<cfn, cin, normVars, storeVars>>

\* the Resumo page: the invoice payments taken out of df_periodo
ResumoSemFatura ==
    /\ cfn = "resumo" /\ Len(cout) = 1
    /\ cout' = Append(cout, SemFatura(cout[1]))
    /\ UNCHANGED <<cfn, cin, normVars, storeVars>>

\* the Resumo page: marcar_e_separar_fixas and total_prev_mes
ResumoTotal ==
    /\ cfn = "resumo" /\ Len(cout) = 2
    /\ cout' = Append(cout, total_prev_mes(cout[2], cin.fixas))
    /\ UNCHANGED <<cfn, cin, normVars, storeVars>>

\* calcular_saldos_reservas(reservas, mov)
Saldos ==
    /\ cfn = "saldos" /\ cout = <<>>
    /\ cout' = <<calcular_saldos_reservas(cin.reservas, cin.mov)>>
    /\ UNCHANGED <<cfn, cin, normVars, storeVars>>

CalcIdleRest ==
    /\ nkind = "gastos"
    /\ ntab = EmptyFrame(GASTOS_COLS)
    /\ nres = <<>>
    /\ StoreIdle

\* repartir_valor_em_parcelas(total, n)
Repartir ==
    /\ cfn = "repartir" /\ cout = <<>>
    /\ \E up \in BOOLEAN :
          cout' = <<repartir_valor_em_parcelas(cin.total, cin.n, up)>>
    /\ UNCHANGED <<cfn, cin, normVars, storeVars>>

\* gerar_lancamentos_parcelados(df, base, n, data, dia)
Parcelar ==
    /\ cfn = "parcelar" /\ cout = <<>>
    /\ \E up \in BOOLEAN :
          cout' = <<gerar_lancamentos_parcelados(
                      cin.df, cin.base, cin.n, cin.data, cin.dia, up,
                      FirstUuids(cin.n + 1, TextsIn(cin.df, Col("ID")), 1))>>
    /\ UNCHANGED <<cfn, cin, normVars, storeVars>>

CalcInit ==
    /\ CalcIdleRest
    /\ cout = <<>>
    /\ \/ cfn = "repartir" /\ cin \in RepartirInputs
       \/ cfn = "parcelar" /\ cin \in ParcelarInputs
       \/ cfn = "gerar" /\ cin \in GerarInputs
       \/ cfn = "separar" /\ cin \in SepararInputs
       \/ cfn = "resumo" /\ cin \in GerarInputs
       \/ cfn = "saldos" /\ cin \in SaldosInputs

CalcNext ==
    \/ Repartir
    \/ Parcelar
    \/ GerarFixas
    \/ Separar
    \/ ResumoFiltro
    \/ ResumoSemFatura
    \/ ResumoTotal
    \/ Saldos

SpecCalc == CalcInit /\ [][CalcNext]_vars

(***************************************************************************)
(* Properties of the installment helpers.                                  *)
(***************************************************************************)
RECURSIVE SumSeq(_)
SumSeq(q) == IF q = <<>> THEN 0 ELSE Head(q) + SumSeq(Tail(q))

\* b is total / n rounded to the cent
IsRounded(b, total, n) == 2 * b * n - 2 * total <= n /\ 2 * total - 2 * b * n <= n

\* C12: installment sum invariant.  For a total >= 0 in whole cents and
\* n >= 1, repartir_valor_em_parcelas returns n amounts that sum exactly to
\* the total; every amount but the last is total / n rounded to the cent and
\* the last is the total less the others.
C12_SumInvariant ==
    (cfn = "repartir" /\ cout # <<>>) =>
        LET ps == cout[1]
            n == cin.n
        IN  /\ Len(ps) = n
            /\ SumSeq(ps) = cin.total
            /\ \A i \in 1..(n - 1) : IsRounded(ps[i], cin.total, n)
            /\ \A i \in 1..(n - 1) : ps[i] = ps[1]
            /\ ps[n] = cin.total - (n - 1) * ps[1]

\* C12 witness: 100.00 in three installments, the last one cent above the
\* others.
C12_Witness ==
    /\ cfn = "repartir" /\ cout # <<>>
    /\ cin.total = 10000 /\ cin.n = 3
    /\ cout[1] = <<3333, 3333, 3334>>

\* the dates of the installments appended to the ledger
NewDates ==
    [i \in 1..cin.n |-> cout[1].rows[Len(cin.df.rows) + i][Col("Data")]]

ValidDate(dt) ==
    /\ IsDate(dt)
    /\ dt.m \in 1..12
    /\ dt.d \in 1..ultimo_dia_mes(dt.y, dt.m)

\* C13: day-1 avoidance.  For every first date, every n >= 2 and every
\* requested day, 1 and none included, gerar_lancamentos_parcelados appends
\* n installments, none dated on the 1st of a month, each on a valid
\* calendar date.
C13_NoDayOne ==
    (cfn = "parcelar" /\ cout # <<>>) =>
        /\ Len(cout[1].rows) = Len(cin.df.rows) + cin.n
        /\ \A i \in 1..cin.n : ValidDate(NewDates[i]) /\ NewDates[i].d # 1

\* C13 witness: day 1 requested, the schedule running over a February.
C13_Witness ==
    /\ cfn = "parcelar" /\ cout # <<>>
    /\ cin.dia = Num(1) /\ cin.data = Date(2024, 12, 31) /\ cin.n = 3
    /\ NewDates = <<Date(2024, 12, 2), Date(2025, 1, 2), Date(2025, 2, 2)>>

\* the i-th month after the date d, on d's day-of-month when that month has
\* it and otherwise on that month's last day
MonthsAfter(d, i) ==
    LET k == d.y * 12 + (d.m - 1) + i
        y == k \div 12
        m == (k % 12) + 1
    IN  Date(y, m, IF d.d <= ultimo_dia_mes(y, m) THEN d.d ELSE ultimo_dia_mes(y, m))

\* C14 (as stated): with no billing day requested, installment i is dated
\* add_meses(primeira_data, i), first dates on the 1st of a month included.
C14_Schedule ==
    (cfn = "parcelar" /\ cout # <<>> /\ cin.dia = NA) =>
        \A i \in 1..cin.n : NewDates[i] = MonthsAfter(cin.data, i - 1)

\* C14 (amended): with no billing day requested, installment i is dated
\* add_meses(primeira_data, i), except that a first date on the 1st of a
\* month puts every installment on the 2nd of its month.
C14_ScheduleButDayOne ==
    (cfn = "parcelar" /\ cout # <<>> /\ cin.dia = NA) =>
        \A i \in 1..cin.n :
            NewDates[i] = IF cin.data.d = 1
                          THEN [MonthsAfter(cin.data, i - 1) EXCEPT !.d = 2]
                          ELSE MonthsAfter(cin.data, i - 1)

\* C14 witness: no day requested, from 31 December over the year boundary
\* into a 28-day February.
C14_Witness ==
    /\ cfn = "parcelar" /\ cout # <<>>
    /\ cin.dia = NA /\ cin.data = Date(2024, 12, 31) /\ cin.n = 3
    /\ NewDates = <<Date(2024, 12, 31), Date(2025, 1, 31), Date(2025, 2, 28)>>

\* the amounts of the installments appended to the ledger
NewValores ==
    [i \in 1..cin.n |-> cout[1].rows[Len(cin.df.rows) + i][Col("Valor")]]

\* C24: non-negative installments.  Every entry appended by
\* gerar_lancamentos_parcelados has Valor >= 0, and so has every amount
\* repartir_valor_em_parcelas returns for two installments or more, for a
\* total >= 0 in whole cents, totals below n cents included.
C24_NonNegative ==
    /\ (cfn = "parcelar" /\ cout # <<>>) =>
          \A i \in 1..cin.n : IsNum(NewValores[i]) /\ NewValores[i].n >= 0
    /\ (cfn = "repartir" /\ cout # <<>> /\ cin.n >= 2) =>
          \A i \in 1..cin.n : cout[1][i] >= 0

(***************************************************************************)
(* Properties of the recurring bills and of the roll-ups.                  *)
(***************************************************************************)
\* an entry dated in (ano, mes) with origin FIXA and RefFixa equal to id
Materialized(df, ano, mes, id) ==
    \E i \in 1..Len(df.rows) :
        LET row == df.rows[i]
        IN  /\ IsDate(row[Col("Data")])
            /\ row[Col("Data")].y = ano /\ row[Col("Data")].m = mes
            /\ row[Col("Origem")] = Str(T_FIXA)
            /\ row[Col("RefFixa")] = Str(id)

TemplateIds(df_fixas) == {df_fixas.rows[i][Col("ID_Fixa")].s : i \in 1..Len(df_fixas.rows)}

IdsOf(df) == {df.rows[i][Col("ID")] : i \in 1..Len(df.rows)}

\* the ids of the active templates
ActiveIds(df_fixas) ==
    {df_fixas.rows[i][Col("ID_Fixa")] :
        i \in {j \in 1..Len(df_fixas.rows) : df_fixas.rows[j][Col("Ativo")] = Bool(TRUE)}}

\* the entry's Origem is FIXA or its RefFixa is the id of an active template
CountsAsFixed(row, df_fixas) ==
    row[Col("Origem")] = Str(T_FIXA) \/ row[Col("RefFixa")] \in ActiveIds(df_fixas)

\* C15: fixed/variable partition.  marcar_e_separar_fixas puts an entry in
\* the fixed set if and only if its Origem is FIXA or its RefFixa is the id
\* of an active template, whatever its category, subcategory and
\* description; every entry of the period is in exactly one of the two sets.
C15_Partition ==
    (cfn = "separar" /\ cout # <<>>) =>
        LET fix == cout[1].df_fix
            var == cout[1].df_var
        IN  /\ \A i \in 1..Len(cin.df.rows) :
                  LET row == cin.df.rows[i]
                  IN  /\ row[Col("ID")] \in IdsOf(fix) <=> CountsAsFixed(row, cin.fixas)
                      /\ row[Col("ID")] \in IdsOf(var) <=> ~CountsAsFixed(row, cin.fixas)
            /\ Len(fix.rows) + Len(var.rows) = Len(cin.df.rows)
            /\ IdsOf(fix) \cap IdsOf(var) = {}

\* C15 witness: an entry typed by hand under the category of an active
\* template is variable, the entry of that template is fixed.
C15_Witness ==
    /\ cfn = "separar" /\ cout # <<>>
    /\ cin.fixas = FixasOf(<<Fixa(T_a1, 31, TRUE)>>)
    /\ Len(cout[1].df_var.rows) = 1 /\ Len(cout[1].df_fix.rows) = 1
    /\ cout[1].df_var.rows[1][Col("Categoria")] = Str(T_lazer)
    /\ cout[1].df_var.rows[1][Col("Origem")] = Str(<<>>)
    /\ cout[1].df_fix.rows[1][Col("RefFixa")] = Str(T_a1)

\* the sum of the Valor of the rows that pass Test
SumWhere(rows, Test(_)) ==
    LET sel == SelectSeq(rows, Test)
    IN  SumSeq([i \in 1..Len(sel) |-> sel[i][Col("Valor")].n])

InMonth(row, ano, mes) ==
    IsDate(row[Col("Data")]) /\ row[Col("Data")].y = ano /\ row[Col("Data")].m = mes

\* the variable spend of the month: entries of the month that are neither
\* invoice payments nor fixed
VariableSpend ==
    SumWhere(cin.df.rows,
             LAMBDA row : /\ InMonth(row, cin.ano, cin.mes)
                          /\ row[Col("Origem")].s \notin ORIGENS_NAO_CONTABILIZAR
                          /\ ~CountsAsFixed(row, cin.fixas))

\* C16 (as stated): the amount set against the Geral target is the variable
\* spend of the month plus the total of only those active templates not yet
\* materialized in the month.
C16_BudgetBasis ==
    (cfn = "resumo" /\ Len(cout) = 3) =>
        cout[3] = VariableSpend
                    + SumWhere(cin.fixas.rows,
                               LAMBDA t : /\ t[Col("Ativo")] = Bool(TRUE)
                                          /\ ~Materialized(cin.df, cin.ano, cin.mes,
                                                           t[Col("ID_Fixa")].s))

\* C16 (amended): the amount set against the Geral target is the variable
\* spend of the month plus the total of all active templates, materialized
\* in the month or not; invoice payments and the entries of materialized
\* templates are left out of the variable spend.
C16_BudgetBasisAllActive ==
    (cfn = "resumo" /\ Len(cout) = 3) =>
        cout[3] = VariableSpend
                    + SumWhere(cin.fixas.rows, LAMBDA t : t[Col("Ativo")] = Bool(TRUE))

\* C16 witness: March 2025 with a hand-typed entry of 10.00 and the entry of
\* the one active template (500.00 planned, 480.00 paid): 510.00.
C16_Witness ==
    /\ cfn = "resumo" /\ Len(cout) = 3
    /\ cin.mes = 3
    /\ cin.fixas = FixasOf(<<Fixa(T_a1, 31, TRUE)>>)
    /\ Len(cin.df.rows) = 2
    /\ Materialized(cin.df, 2025, 3, T_a1)
    /\ VariableSpend = 1000
    /\ cout[3] = 51000

\* the movement is of reserve id and of the given type
TipoIs(row, tipo, id) == row[Col("ID_Reserva")] = id /\ row[Col("Tipo")] = Str(tipo)

\* C17: reserve progress.  For every reserve, Saldo is the sum of its Aporte
\* amounts less the sum of its Retirada amounts (movements of other reserves
\* do not count, no movement gives 0), Percentual is Saldo / Meta * 100, or
\* 0 when Meta is 0, and Falta is max(Meta - Saldo, 0).
C17_ReserveProgress ==
    (cfn = "saldos" /\ cout # <<>>) =>
        /\ Len(cout[1]) = Len(cin.reservas.rows)
        /\ \A i \in 1..Len(cout[1]) :
              LET r == cin.reservas.rows[i]
                  o == cout[1][i]
                  id == r[Col("ID_Reserva")]
                  meta == r[Col("Meta")].n
                  saldo == SumWhere(cin.mov.rows, LAMBDA row : TipoIs(row, T_Aporte, id))
                             - SumWhere(cin.mov.rows, LAMBDA row : TipoIs(row, T_Retirada, id))
              IN  /\ o.row[Col("ID_Reserva")] = id
                  /\ o.Saldo = saldo
                  /\ IF meta = 0 THEN o.Percentual.num = 0
                     ELSE o.Percentual.num = saldo * 100 /\ o.Percentual.den = meta
                  /\ o.Falta = (IF meta - saldo > 0 THEN meta - saldo ELSE 0)

\* C17 witness: target 6000.00 and movements +1000, +500, -200: balance
\* 1300.00, 21.67 percent, 4700.00 to go.
C17_Witness ==
    /\ cfn = "saldos" /\ cout # <<>>
    /\ Len(cin.mov.rows) = 3
    /\ Len(cout[1]) >= 1
    /\ cout[1][1].row[Col("Meta")] = Num(600000)
    /\ cout[1][1].Saldo = 130000
    /\ RoundDiv(cout[1][1].Percentual.num * 100, cout[1][1].Percentual.den, TRUE) = 2167
    /\ cout[1][1].Falta = 470000

(***************************************************************************)
(* Deleting a template or a reserve, and restoring a backup.               *)
(***************************************************************************)
\* df.loc[df[c] != escolha].copy()
SemLinha(df, c, escolha) ==
    [df EXCEPT !.rows = SelectSeq(df.rows, LAMBDA row : row[Col(c)] # Str(escolha))]

\* mutant: the entries materialized from the template deleted with it
ApagarFixaEmCascata(t, escolha) ==
    [t EXCEPT !.f = SemLinha(t.f, "ID_Fixa", escolha),
              !.g = SemLinha(t.g, "RefFixa", escolha)]

\* "Apagar conta fixa selecionada": the tables handed to salvar_excel
ApagarFixa(t, escolha) ==
    LET f == SemLinha(t.f, "ID_Fixa", escolha)
    IN  [t EXCEPT !.f = _ensure_fixas_schema(f, SessionUuids("fixas", f)).df]

\* mutant: the movements of the reserve left in place
ApagarReservaSemMov(t, escolha) ==
    LET r == SemLinha(t.r, "ID_Reserva", escolha)
    IN  [t EXCEPT !.r = _ensure_reservas_schema(r, SessionUuids("reservas", r)).df]

\* "Apagar reserva selecionada": the tables handed to salvar_excel
ApagarReserva(t, escolha) ==
    LET r == SemLinha(t.r, "ID_Reserva", escolha)
        mov == SemLinha(t.mov, "ID_Reserva", escolha)
    IN  [t EXCEPT !.r = _ensure_reservas_schema(r, SessionUuids("reservas", r)).df,
                  !.mov = _ensure_movres_schema(mov, SessionUuids("movres", mov)).df]

\* the ids the selectbox of a table offers
Escolhas(df, c) == {df.rows[i][Col(c)].s : i \in 1..Len(df.rows)}

\* "Apagar conta fixa selecionada", confirmed
UiDelFixa(p) ==
    /\ UNCHANGED <<normVars, calcVars, runs, now>>
    /\ pc[p] = "loaded"
    /\ \E escolha \in Escolhas(mem[p].f, "ID_Fixa") :
          CallSalvar(p, "del_fixa", ApagarFixa(mem[p], escolha))
    /\ UNCHANGED <<files, quar, lock, fd, msg, cache, mt>>

\* "Apagar reserva selecionada", confirmed
UiDelReserva(p) ==
    /\ UNCHANGED <<normVars, calcVars, runs, now>>
    /\ pc[p] = "loaded"
    /\ \E escolha \in Escolhas(mem[p].r, "ID_Reserva") :
          CallSalvar(p, "del_reserva", ApagarReserva(mem[p], escolha))
    /\ UNCHANGED <<files, quar, lock, fd, msg, cache, mt>>

\* mutant: the tables as read from the upload
restore_sem_normalizar(up) == carregar_excel_cached(up.sheets)

\* restore_from_upload: the tables read from the upload and normalized,
\* which it hands to salvar_excel
restore_tables(up) == EnsureAll(carregar_excel_cached(up.sheets)).t

\* what the file uploader may hold: files that are no workbook, workbooks
\* of earlier versions, a backup of the default tables
Uploads == {Corrupt, Truncated, DefaultDoc} \cup LegacyDocs

\* "Restaurar backup": restore_from_upload(up).  pd.ExcelFile raises on a
\* file it cannot parse, and the exception ends the run
UiRestore(p) ==
    /\ UNCHANGED <<normVars, calcVars, runs, now>>
    /\ pc[p] = "loaded"
    /\ \E up \in Uploads :
          IF Parseable(up)
          THEN CallSalvar(p, "restore", restore_tables(up))
          ELSE /\ pc' = [pc EXCEPT ![p] = "raised"]
               /\ result' = [result EXCEPT ![p] = "parse_error"]
               /\ mem' = [mem EXCEPT ![p] = NoFrames]
               /\ ctx' = [ctx EXCEPT ![p] = "restore"]
               /\ UNCHANGED <<late, obs>>
    /\ UNCHANGED <<files, quar, lock, fd, msg, cache, mt>>

MovOf(rows) == [cols |-> MOVRES_COLS, rows |-> rows, boolcols |-> {}]

\* tables with two templates, two reserves, and entries and movements
\* that refer to them
EditTables ==
    Frames(GastosOf(<<Gasto(<<"g","1">>, Date(2025, 3, 10), T_lazer, 1000, <<>>, <<>>),
                      Gasto(<<"g","5">>, Date(2025, 3, 31), T_lazer, 48000, T_FIXA, T_a1),
                      Gasto(<<"g","7">>, Date(2025, 3, 2), T_lazer, 50000, T_FIXA, T_f2)>>),
           _default_frames.m,
           FixasOf(<<Fixa(T_a1, 31, TRUE), Fixa(T_f2, 1, FALSE)>>),
           ReservasOf(<<Reserva(T_a1, 600000, TRUE), Reserva(T_f2, 500, FALSE)>>),
           MovOf(<<Mov(<<"m","1">>, T_a1, T_Aporte, 100000),
                   Mov(<<"m","4">>, T_f2, T_Aporte, 700),
                   Mov(<<"m","3">>, T_a1, T_Retirada, 20000)>>))

EditDoc == Workbook(SaveBytes(EditTables))

(***************************************************************************)
(* SpecEdit: one session that has loaded a document with templates,        *)
(* reserves, entries and movements deletes a template or a reserve, or     *)
(* restores an upload, with the marker free or left by a process that      *)
(* died; the other session never connects.                                 *)
(***************************************************************************)
EditInit ==
    /\ NormIdle
    /\ files = [doc |-> EditDoc, tmp |-> Missing, bak |-> Missing]
    /\ quar = {}
    /\ lock \in {NoLock, Orphan}
    /\ pc = [p \in PESSOAS |-> IF p = "Roney" THEN "loaded" ELSE "idle"]
    /\ ctx = [p \in PESSOAS |-> "none"]
    /\ mem = [p \in PESSOAS |-> IF p = "Roney" THEN Loaded(EditDoc) ELSE NoFrames]
    /\ fd = [p \in PESSOAS |-> "none"]
    /\ late = [p \in PESSOAS |-> FALSE]
    /\ msg = [p \in PESSOAS |-> FALSE]
    /\ result = [p \in PESSOAS |-> "none"]
    /\ obs = [p \in PESSOAS |-> NoObs]
    /\ runs = [p \in PESSOAS |-> MaxRuns]
    /\ cache = [p \in PESSOAS |->
                  IF p = "Roney" THEN {[mtime |-> 0, doc |-> EditDoc]} ELSE {}]
    /\ mt = [doc |-> 0, tmp |-> 0]
    /\ now = 0

EditNext ==
    \/ \E p \in PESSOAS : UiDelFixa(p)
    \/ \E p \in PESSOAS : UiDelReserva(p)
    \/ \E p \in PESSOAS : UiRestore(p)
    \/ \E p \in PESSOAS : AcqCheck(p)
    \/ \E p \in PESSOAS : AcqRemove(p)
    \/ \E p \in PESSOAS : AcqOpen(p)
    \/ \E p \in PESSOAS : AcqRetry(p)
    \/ \E p \in PESSOAS : AcqTimeout(p)
    \/ \E p \in PESSOAS : Deadline(p)
    \/ \E p \in PESSOAS : WBackup(p)
    \/ \E p \in PESSOAS : WOpen(p)
    \/ \E p \in PESSOAS : WWrite(p)
    \/ \E p \in PESSOAS : WReplace(p)
    \/ \E p \in PESSOAS : Release(p)
    \/ \E p \in PESSOAS : EndRun(p)
    \/ \E p \in PESSOAS : Crash(p)
    \/ Tick

SpecEdit == EditInit /\ [][EditNext]_vars

\* the session is inside the salvar_excel of a delete handler
Deleting(p, handler) == pc[p] \in SavePcs /\ ctx[p] = handler

\* the document holds what the handler's salvar_excel wrote
Persisted(p) == pc[p] = "release"

\* the table is the same in memory and, once written, in the document
Kept(p, tab) ==
    /\ mem[p][tab] = obs[p].before[tab]
    /\ Persisted(p) => Loaded(files.doc)[tab] = obs[p].before[tab]

\* the table lost the rows whose column c is escolha and nothing else, in
\* memory and, once written, in the document
LostOnly(p, tab, c, escolha) ==
    /\ mem[p][tab] = SemLinha(obs[p].before[tab], c, escolha)
    /\ Persisted(p) => Loaded(files.doc)[tab] = mem[p][tab]

\* the rows of the table with escolha as their id
RowsOfId(df, c, escolha) == {i \in 1..Len(df.rows) : df.rows[i][Col(c)] = Str(escolha)}

\* C18 as stated: deleting a template or a reserve removes only that row
\* of its own table; the entries and the movements are the same before and
\* after, in memory and in the document the handler wrote.
C18_NoCascade ==
    \A p \in PESSOAS :
       /\ Deleting(p, "del_fixa") =>
             /\ Kept(p, "g") /\ Kept(p, "mov")
             /\ \E escolha \in Escolhas(obs[p].before.f, "ID_Fixa") :
                    LostOnly(p, "f", "ID_Fixa", escolha)
       /\ Deleting(p, "del_reserva") =>
             /\ Kept(p, "g") /\ Kept(p, "mov")
             /\ \E escolha \in Escolhas(obs[p].before.r, "ID_Reserva") :
                    LostOnly(p, "r", "ID_Reserva", escolha)

\* C18, amended: deleting a template removes only its row of the templates
\* and no entry is removed or altered; deleting a reserve removes its row
\* of the reserves and every movement whose ID_Reserva is its id, and no
\* other movement and no entry is removed or altered; in memory and in the
\* document the handler wrote.
C18_CascadeOnlyMovements ==
    \A p \in PESSOAS :
       /\ Deleting(p, "del_fixa") =>
             /\ Kept(p, "g") /\ Kept(p, "mov") /\ Kept(p, "m") /\ Kept(p, "r")
             /\ \E escolha \in Escolhas(obs[p].before.f, "ID_Fixa") :
                    /\ LostOnly(p, "f", "ID_Fixa", escolha)
                    /\ Cardinality(RowsOfId(obs[p].before.f, "ID_Fixa", escolha)) = 1
       /\ Deleting(p, "del_reserva") =>
             /\ Kept(p, "g") /\ Kept(p, "m") /\ Kept(p, "f")
             /\ \E escolha \in Escolhas(obs[p].before.r, "ID_Reserva") :
                    /\ LostOnly(p, "r", "ID_Reserva", escolha)
                    /\ Cardinality(RowsOfId(obs[p].before.r, "ID_Reserva", escolha)) = 1
                    /\ LostOnly(p, "mov", "ID_Reserva", escolha)

\* a reserve with movements was deleted and the document written: its
\* movements are gone, those of the other reserve are there
C18_Witness ==
    \E p \in PESSOAS :
       /\ Deleting(p, "del_reserva") /\ Persisted(p)
       /\ Len(Loaded(files.doc).mov.rows) < Len(obs[p].before.mov.rows)
       /\ Len(Loaded(files.doc).mov.rows) > 0
       /\ Len(Loaded(files.doc).g.rows) = 3

\* the tables are what the five normalizers return: normalizing them again
\* changes nothing
Normalized(t) == ~EnsureAll(t).changed /\ EnsureAll(t).t = t

\* restore_from_upload raised on an upload it could not parse
Rejected(p) == pc[p] = "raised" /\ result[p] = "parse_error"

Granule ==
    /\ UNCHANGED <<normVars, calcVars, runs>>
    /\ Later # now
    /\ now' = Later
    /\ UNCHANGED <<files, quar, lock, pc, ctx, mem, fd, late, msg, result, obs, cache, mt>>

CacheInit ==
    /\ NormIdle
    /\ files = [doc |-> EditDoc, tmp |-> Missing, bak |-> Missing]
    /\ quar = {}
    /\ lock = NoLock
    /\ pc = [p \in PESSOAS |-> IF p = "Roney" THEN "loaded" ELSE "idle"]
    /\ ctx = [p \in PESSOAS |-> "none"]
    /\ mem = [p \in PESSOAS |-> IF p = "Roney" THEN Loaded(EditDoc) ELSE NoFrames]
    /\ fd = [p \in PESSOAS |-> "none"]
    /\ late = [p \in PESSOAS |-> FALSE]
    /\ msg = [p \in PESSOAS |-> FALSE]
    /\ result = [p \in PESSOAS |-> "none"]
    /\ obs = [p \in PESSOAS |-> NoObs]
    /\ runs = [p \in PESSOAS |-> IF p = "Roney" THEN MaxRuns ELSE 0]
    /\ cache = [p \in PESSOAS |->
                  IF p = "Roney" THEN {[mtime |-> 0, doc |-> EditDoc]} ELSE {}]
    /\ mt = [doc |-> 0, tmp |-> 0]
    /\ now = 0

CacheNext ==
    \/ \E p \in PESSOAS : StartRun(p)
    \/ \E p \in PESSOAS : LdInit(p)
    \/ \E p \in PESSOAS : LdRead(p)
    \/ \E p \in PESSOAS : UiSave(p)
    \/ \E p \in PESSOAS : AcqCheck(p)
    \/ \E p \in PESSOAS : AcqOpen(p)
    \/ \E p \in PESSOAS : AcqRetry(p)
    \/ \E p \in PESSOAS : WBackup(p)
    \/ \E p \in PESSOAS : WOpen(p)
    \/ \E p \in PESSOAS : WWrite(p)
    \/ \E p \in PESSOAS : WReplace(p)
    \/ \E p \in PESSOAS : Release(p)
    \/ \E p \in PESSOAS : EndRun(p)
    \/ Granule

SpecCache == CacheInit /\ [][CacheNext]_vars

\* carregar_excel returned tables it read, as they were or repaired
ReturnedRead(p) ==
    pc[p] = "loaded" /\ ctx[p] \in {"none", "init", "migrate"} /\ obs[p].docs # {}

\* C20: the tables a carregar_excel returns are those of a content the
\* document had when the call began or got later: never those of a save
\* that another save had replaced before the call began.
C20_NoStaleRead ==
    \A p \in PESSOAS :
       ReturnedRead(p) =>
          \E d \in obs[p].docs : Parseable(d) /\ mem[p] = Loaded(d)

(***************************************************************************)
(* Properties of a salvar_excel call among others.                         *)
(***************************************************************************)
\* the session's os.replace has put its file at the document path
Renamed(p) == pc[p] = "release"

\* C23: when the rename of a salvar_excel is done, the .bak the call copied
\* holds the content the rename replaced; when its copy failed the rename
\* is done all the same and the document holds the tables of the call.
C23_BestEffortBackup ==
    \A p \in PESSOAS :
       Renamed(p) =>
          IF "bak" \in obs[p].touched
          THEN files.bak = obs[p].old
          ELSE files.doc = Workbook(SaveBytes(mem[p]))


\* salvar_excel of p is left by this step, by a return or a raise
Leaves(p) == pc[p] \in HoldPcs /\ pc'[p] \notin HoldPcs /\ ~Crash(p)

\* C25: a salvar_excel that acquired the lock leaves no marker behind when it
\* returns or raises, whether the write succeeded or failed; and a marker is
\* only ever removed by the release_lock of a call that acquired the lock, or
\* by the stale-marker branch of a running acquire_lock.
C25_LockReleased ==
    [][/\ \A p \in PESSOAS : Leaves(p) => lock' = NoLock
       /\ (LockExists /\ lock' = NoLock) =>
             \E p \in PESSOAS :
                \/ pc[p] = "acq_remove" /\ pc'[p] = "acq_open"
                \/ /\ pc[p] \in {"release", "release_exc"}
                   /\ "lock" \in obs[p].touched
                   /\ pc'[p] \notin SavePcs]_vars

\* C25 witness: a salvar_excel that acquired the lock has raised from the
\* file write, and no marker is left.
C25_Witness ==
    \E p \in PESSOAS :
        pc[p] = "raised" /\ result[p] = "ioerror" /\ ~LockExists


\* the ledger of the document holds the entry the session added
InDocument(p) == Parseable(files.doc) /\ HasEntryOf(Loaded(files.doc), p)

\* C26: once both sessions have loaded the document, added their entry and
\* had their salvar_excel return, the document holds both entries.
C26_NoLostUpdate ==
    (\A p \in PESSOAS : obs[p].saved /\ pc[p] \notin SavePcs)
        => \A p \in PESSOAS : InDocument(p)

(***************************************************************************)
(* SpecQuar: the two sessions each run their script once on a document     *)
(* that cannot be parsed, so that their reads, quarantines and recovery    *)
(* saves run against each other.  No marker gets stale, and no session     *)
(* reads twice, so that no cached result is used.                          *)
(***************************************************************************)
QuarInit ==
    /\ NormIdle
    /\ \E d \in {Corrupt, Truncated} :
          files = [doc |-> d, tmp |-> Missing, bak |-> Missing]
    /\ quar = {}
    /\ lock = NoLock
    /\ pc = [p \in PESSOAS |-> "idle"]
    /\ ctx = [p \in PESSOAS |-> "none"]
    /\ mem = [p \in PESSOAS |-> NoFrames]
    /\ fd = [p \in PESSOAS |-> "none"]
    /\ late = [p \in PESSOAS |-> FALSE]
    /\ msg = [p \in PESSOAS |-> FALSE]
    /\ result = [p \in PESSOAS |-> "none"]
    /\ obs = [p \in PESSOAS |-> NoObs]
    /\ runs = [p \in PESSOAS |-> MaxRuns - 1]
    /\ cache = [p \in PESSOAS |-> {}]
    /\ mt = [doc |-> 0, tmp |-> 0]
    /\ now = 0

QuarNext ==
    \/ \E p \in PESSOAS : StartRun(p)
    \/ \E p \in PESSOAS : LdInit(p)
    \/ \E p \in PESSOAS : LdRead(p)
    \/ \E p \in PESSOAS : LdQuar(p)
    \/ \E p \in PESSOAS : AcqCheck(p)
    \/ \E p \in PESSOAS : AcqOpen(p)
    \/ \E p \in PESSOAS : AcqRetry(p)
    \/ \E p \in PESSOAS : WBackup(p)
    \/ \E p \in PESSOAS : WOpen(p)
    \/ \E p \in PESSOAS : WWrite(p)
    \/ \E p \in PESSOAS : WReplace(p)
    \/ \E p \in PESSOAS : Release(p)
    \/ \E p \in PESSOAS : EndRun(p)

SpecQuar == QuarInit /\ [][QuarNext]_vars

\* C27: every file _quarentena_arquivo has put aside is a document that
\* cannot be parsed, and the document a recovery save has replaced with the
\* default tables was not a parseable one.
C27_OnlyCorrupt ==
    /\ \A d \in quar : ~Parseable(d)
    /\ \A p \in PESSOAS :
          (ctx[p] = "recover" /\ pc[p] = "release") => ~Parseable(obs[p].old)
====
